---------------------------- MODULE Spec2Model ----------------------------
(***************************************************************************)
(* State-machine model of the Error Explorer Angular SDK reporting         *)
(* pipeline: circuit breaker, retry manager, offline queue, rate limiter,  *)
(* batch manager and the ErrorExplorerService orchestrator.                *)
(*                                                                         *)
(* Every component is modelled as a record plus pure operators, one per    *)
(* method of the TypeScript class.  Each specification below drives one    *)
(* component (or the composed pipeline) with the calls its callers can     *)
(* make; an `await` of the source is a point where other actions may run.  *)
(***************************************************************************)
EXTENDS Integers, Sequences, FiniteSets, TLC

VARIABLES
    now,    \* Date.now()
    cb,     \* CircuitBreakerService fields
    cbx,    \* callers of CircuitBreakerService.execute and what they observed
    rt,     \* one run of RetryManagerService.executeWithRetry
    online, \* navigator.onLine
    oq,     \* OfflineManagerService fields, its pass in flight and its timers
    oqx,    \* what the callers of OfflineManagerService did and observed
    sdk,    \* ErrorExplorerService: configuration, rate limiter, quota, batch, monitor
    sdkx,   \* the submissions made, the batch sends in flight and the transport's log
    rateLimiter, \* a RateLimiterService driven through its public methods
    rlx,    \* the recordRequest calls made on it and the last answer it gave
    quota,  \* a QuotaManagerService driven through its public methods
    qx,     \* the recordErrorSent calls made on it and its last access
    sv,     \* a value handed to sanitizeData, and what came back
    dx,     \* the reportError calls of a service that sends each report directly
    app,    \* a configuration handed to the service's constructor, and what it did
    bm,     \* a BatchManagerService driven through addToBatch, flush and its timer
    bmx,    \* the items added to it and the batches it handed to its send function
    sbd,    \* one run of ErrorExplorerService.sendBatchDirectly
    ring,   \* a BreadcrumbManager, what was added since the last clear, what it returned
    fpr,    \* two errors and the fingerprints createErrorFingerprint gave them
    wire,   \* a compressed batch: what compress returned, what was sent, what it decodes to
    sub,    \* a service whose reportError calls are followed call by call
    mon     \* an SDKMonitorService and the sends that report their requests to it

cbVars == <<cb, cbx>>
oqVars == <<online, oq, oqx>>
sdkVars == <<sdk, sdkx>>
rlVars == <<rateLimiter, rlx>>
quotaVars == <<quota, qx>>
bmVars == <<bm, bmx>>
lastVars == <<wire, sub, mon>>
laterVars == <<ring, fpr, lastVars>>
partVars == <<app, bmVars, sbd, laterVars>>
unitVars == <<rlVars, quotaVars, sv, dx, partVars>>
beyondCB == <<rt, oqVars, sdkVars, unitVars>>
beyondRT == <<cbVars, oqVars, sdkVars, unitVars>>
beyondOQ == <<cbVars, rt, sdkVars, unitVars>>
beyondSDK == <<cbVars, rt, unitVars>>
beyondRL == <<cbVars, rt, oqVars, sdkVars, quotaVars, sv, dx, partVars>>
beyondQuota == <<cbVars, rt, oqVars, sdkVars, rlVars, sv, dx, partVars>>
beyondSanitizer == <<cbVars, rt, oqVars, sdkVars, rlVars, quotaVars, dx, partVars>>
beyondDirect == <<cbx, rt, oqx, sdkx, rlVars, quotaVars, sv, partVars>>
beyondStartup == <<cbVars, rt, oqVars, sdkx, rlVars, quotaVars, sv, dx, bmVars, sbd,
                   laterVars>>
beyondBatch == <<cbVars, rt, oqVars, sdkVars, rlVars, quotaVars, sv, dx, app, sbd,
                 laterVars>>
beyondSend == <<cbVars, rt, oqVars, sdkVars, rlVars, quotaVars, sv, dx, app, bmVars,
                laterVars>>
beyondRing == <<cbVars, rt, oqVars, sdkVars, rlVars, quotaVars, sv, dx, app, bmVars, sbd,
                fpr, lastVars>>
beyondFpr == <<cbVars, rt, oqVars, sdkVars, rlVars, quotaVars, sv, dx, app, bmVars, sbd,
               ring, lastVars>>
beyondWire == <<cbVars, rt, oqVars, sdkVars, rlVars, quotaVars, sv, dx, app, bmVars, sbd,
                ring, fpr, sub, mon>>
beyondSub == <<cbVars, rt, oqVars, sdkVars, rlVars, quotaVars, sv, dx, app, bmVars, sbd,
               ring, fpr, wire, mon>>
beyondMon == <<cbVars, rt, oqVars, sdkVars, rlVars, quotaVars, sv, dx, app, bmVars, sbd,
               ring, fpr, wire, sub>>
vars == <<now, cb, cbx, rt, online, oq, oqx, sdk, sdkx, rateLimiter, rlx, quota, qx,
          sv, dx, app, bm, bmx, sbd, ring, fpr, wire, sub,
          mon>>

(***************************************************************************)
(* Bounds of the model.                                                    *)
(***************************************************************************)
CBMaxTime == 5        \* the breaker's clock runs from 1 to CBMaxTime
MaxCalls == 2         \* execute calls that may be in flight together
MaxCount == 3         \* cap of failureCount / successCount
CBFailureThreshold == 2   \* configured CircuitBreakerConfig.failureThreshold
CBTimeout == 2            \* configured CircuitBreakerConfig.timeout
OQMaxTime == 2        \* the offline queue's clock runs from 1 to OQMaxTime
MaxReports == 3       \* reports handed to queueReport in one behaviour
DrainReports == 6     \* records a constructed instance loads from its store
MaxRestarts == 1      \* page reloads in one behaviour
MaxQueueSize == 2     \* configured maxOfflineQueueSize
MaxAge == 1           \* configured offlineQueueMaxAge
MaxTimers == 1        \* pending setTimeout(processQueue) beyond which no pass is requested
NumFingerprints == 3  \* distinct errors submitted to the pipeline
MaxSubmissions == 3   \* reportError calls in one behaviour of the pipeline
MaxInFlight == 1      \* batch sends that may be awaiting the transport together
EstimatedSize == 2048 \* JSON.stringify(report).length of the reports submitted
BurstSpan == 1000     \* a burst of an error: the calls within BurstSpan ms of its first

\* JavaScript null
Null == 0 - 1

\* 24 * 60 * 60 * 1000
DayMs == 86400000

\* JavaScript truthiness of a `number | null`
Truthy(x) == x # Null /\ x # 0

(***************************************************************************)
(* CircuitBreakerService                                                   *)
(***************************************************************************)
CBFresh ==
    [state |-> "CLOSED", failureCount |-> 0, successCount |-> 0,
     lastFailureTime |-> Null, nextRetryTime |-> Null]

\* reset(): back to the field initialisers
Reset(c) == CBFresh

\* tripCircuit()
TripCircuit(c, t) ==
    [c EXCEPT !.state = "OPEN", !.nextRetryTime = t + CBTimeout]

\* isCallAllowed() letting an OPEN breaker through whatever the time
IsCallAllowedEarly(c, t) ==
    CASE c.state = "CLOSED" -> [allowed |-> TRUE, cb |-> c]
      [] c.state = "OPEN" ->
            IF Truthy(c.nextRetryTime)
            THEN [allowed |-> TRUE, cb |-> [c EXCEPT !.state = "HALF_OPEN"]]
            ELSE [allowed |-> FALSE, cb |-> c]
      [] c.state = "HALF_OPEN" -> [allowed |-> TRUE, cb |-> c]
      [] OTHER -> [allowed |-> FALSE, cb |-> c]

\* isCallAllowed(): the returned boolean and the state it leaves
\* (an OPEN breaker whose nextRetryTime is due becomes HALF_OPEN)
IsCallAllowed(c, t) ==
    CASE c.state = "CLOSED" -> [allowed |-> TRUE, cb |-> c]
      [] c.state = "OPEN" ->
            IF Truthy(c.nextRetryTime) /\ t >= c.nextRetryTime
            THEN [allowed |-> TRUE, cb |-> [c EXCEPT !.state = "HALF_OPEN"]]
            ELSE [allowed |-> FALSE, cb |-> c]
      [] c.state = "HALF_OPEN" -> [allowed |-> TRUE, cb |-> c]
      [] OTHER -> [allowed |-> FALSE, cb |-> c]

\* onSuccess()
OnSuccess(c) ==
    LET c1 == [c EXCEPT !.successCount = @ + 1]
    IN  IF c1.state = "HALF_OPEN" THEN Reset(c1) ELSE c1

\* onFailure() with the threshold test off by one
OnFailureLate(c, t) ==
    LET c1 == [c EXCEPT !.failureCount = @ + 1, !.lastFailureTime = t]
    IN  IF c1.state = "HALF_OPEN" THEN TripCircuit(c1, t)
        ELSE IF c1.failureCount > CBFailureThreshold THEN TripCircuit(c1, t)
        ELSE c1

\* onFailure()
OnFailure(c, t) ==
    LET c1 == [c EXCEPT !.failureCount = @ + 1, !.lastFailureTime = t]
    IN  IF c1.state = "HALF_OPEN" THEN TripCircuit(c1, t)
        ELSE IF c1.failureCount >= CBFailureThreshold THEN TripCircuit(c1, t)
        ELSE c1

\* forceOpen()
ForceOpen(c, t) ==
    [c EXCEPT !.state = "OPEN", !.nextRetryTime = t + CBTimeout]

\* forceClose()
ForceClose(c) == Reset(c)

(***************************************************************************)
(* Error messages.  A message is a sequence of tokens: a piece of text or  *)
(* a run of decimal digits (with its value), so that String.includes and   *)
(* the regular expression /HTTP (\d+):/ are computed on what the message   *)
(* is made of.                                                             *)
(***************************************************************************)
Txt(s) == [num |-> FALSE, text |-> s, val |-> 0]
Num(n) == [num |-> TRUE, text |-> "", val |-> n]

\* String.prototype.includes for the phrases the code looks for
Includes(msg, phrase) == \E i \in 1..Len(msg) : msg[i] = Txt(phrase)

\* the positions where /HTTP (\d+):/ matches
HttpMatches(msg) ==
    {i \in 1..Len(msg) : /\ i + 2 <= Len(msg)
                         /\ msg[i] = Txt("HTTP ")
                         /\ msg[i + 1].num
                         /\ msg[i + 2] = Txt(": ")}

Min(S) == CHOOSE x \in S : \A y \in S : x <= y

\* HTTP statuses the transport may answer with; 0 is a network failure (Angular's
\* HttpErrorResponse of a request that got no response has status 0)
Statuses == {0, 400, 401, 403, 404, 408, 413, 429, 500, 503}

\* HttpErrorResponse.message of Angular's HttpClient
HttpErrorMessage(status) ==
    <<Txt("Http failure response for "), Txt("url"), Txt(": "), Num(status),
      Txt(" "), Txt("statusText")>>

\* the Error sendReportDirectly throws for a transport error with this status
SendReportDirectlyMessage(status) ==
    IF status = 401 \/ status = 403 THEN <<Txt("Authentication failed - SDK disabled")>>
    ELSE IF status = 429 THEN <<Txt("Rate limit exceeded by server")>>
    ELSE IF status = 413 THEN <<Txt("Payload too large")>>
    ELSE <<Txt("HTTP "), IF status # 0 THEN Num(status) ELSE Txt("unknown"), Txt(": ")>>
         \o HttpErrorMessage(status)

(***************************************************************************)
(* RetryManagerService                                                     *)
(***************************************************************************)
MaxRetriesDefault == 3

\* what an operation handed to executeWithRetry may settle with: sendReportDirectly
\* answered by the transport with a status, or any other operation rejecting with
\* one of the plain errors shouldRetry knows
OpOk == [via |-> "ok", status |-> 200, msg |-> <<>>]

TransportFailures ==
    {[via |-> "sendReportDirectly", status |-> st, msg |-> SendReportDirectlyMessage(st)] :
        st \in Statuses}

PlainFailures ==
    {[via |-> "plain", status |-> 0, msg |-> <<Txt(ph)>>] :
        ph \in {"Network error", "Failed to fetch", "Request timeout"}}

OpFailures == TransportFailures \cup PlainFailures

\* shouldRetry(error, attempt) giving up one attempt early
ShouldRetryEarly(msg, attempt, maxRetries) ==
    IF attempt >= maxRetries - 2 THEN FALSE
    ELSE IF Includes(msg, "Rate limit exceeded by server") THEN TRUE
    ELSE IF Includes(msg, "Request timeout") THEN TRUE
    ELSE IF Includes(msg, "Network error") \/ Includes(msg, "Failed to fetch") THEN TRUE
    ELSE IF HttpMatches(msg) # {}
         THEN LET status == msg[Min(HttpMatches(msg)) + 1].val
              IN  IF status = 401 \/ status = 403 THEN FALSE
                  ELSE status >= 500 \/ status = 429 \/ status = 408
    ELSE FALSE

\* shouldRetry(error, attempt)
ShouldRetry(msg, attempt, maxRetries) ==
    IF attempt >= maxRetries - 1 THEN FALSE
    ELSE IF Includes(msg, "Rate limit exceeded by server") THEN TRUE
    ELSE IF Includes(msg, "Request timeout") THEN TRUE
    ELSE IF Includes(msg, "Network error") \/ Includes(msg, "Failed to fetch") THEN TRUE
    ELSE IF HttpMatches(msg) # {}
         THEN LET status == msg[Min(HttpMatches(msg)) + 1].val
              IN  IF status = 401 \/ status = 403 THEN FALSE
                  ELSE status >= 500 \/ status = 429 \/ status = 408
    ELSE FALSE

\* executeWithRetry: `attempt === this.config.maxRetries - 1`
IsFinalAttempt(attempt, maxRetries) == attempt = maxRetries - 1

\* executeWithRetry throwing the first error it caught
ErrorToThrowFirst(raised) == raised[1]

\* executeWithRetry: `throw lastError`
ErrorToThrow(raised) == raised[Len(raised)]

\* `throw lastError!` when the loop body never ran: undefined
Undefined == [msg |-> <<>>, attempt |-> 0]

(***************************************************************************)
(* One run of executeWithRetry(operation).                                 *)
(* rt.outcomes lists how each invocation of the operation settled,         *)
(* rt.raised the errors the operation threw, each with the number of the   *)
(* attempt that raised it.                                                 *)
(***************************************************************************)
RTFresh ==
    [pc |-> "idle", maxRetries |-> MaxRetriesDefault, attempt |-> 0,
     invocations |-> 0, delays |-> 0, outcomes |-> <<>>, raised |-> <<>>,
     thrown |-> Undefined]

RTIdle == rt = RTFresh

\* executeWithRetry(operation) is called on a manager configured with m retries:
\* the first invocation of the operation, or the loop does not run at all
RTStart(m) ==
    /\ rt.pc = "idle"
    /\ rt' = IF m > 0
             THEN [rt EXCEPT !.pc = "calling", !.maxRetries = m, !.invocations = 1]
             ELSE [rt EXCEPT !.pc = "thrown", !.maxRetries = m]
    /\ UNCHANGED <<now, beyondRT>>

\* `return await operation()`: the operation resolved
RTOpResolve ==
    /\ rt.pc = "calling"
    /\ rt' = [rt EXCEPT !.pc = "returned", !.outcomes = Append(@, OpOk)]
    /\ UNCHANGED <<now, beyondRT>>

\* the catch block: the operation rejected
RTOpReject(failure) ==
    /\ rt.pc = "calling"
    /\ LET err == [msg |-> failure.msg, attempt |-> rt.attempt + 1]
           raised == Append(rt.raised, err)
           giveUp == \/ IsFinalAttempt(rt.attempt, rt.maxRetries)
                     \/ ~ShouldRetry(err.msg, rt.attempt, rt.maxRetries)
       IN  rt' = IF giveUp
                 THEN [rt EXCEPT !.pc = "thrown", !.outcomes = Append(@, failure),
                                 !.raised = raised, !.thrown = ErrorToThrow(raised)]
                 ELSE [rt EXCEPT !.pc = "delaying", !.outcomes = Append(@, failure),
                                 !.raised = raised, !.delays = @ + 1]
    /\ UNCHANGED <<now, beyondRT>>

\* `await this.delay(delay)` is over: the next iteration invokes the operation,
\* or the loop ends and `throw lastError!` runs
RTDelayElapsed ==
    /\ rt.pc = "delaying"
    /\ rt' = IF rt.attempt + 1 < rt.maxRetries
             THEN [rt EXCEPT !.pc = "calling", !.attempt = @ + 1, !.invocations = @ + 1]
             ELSE [rt EXCEPT !.pc = "thrown", !.attempt = @ + 1,
                             !.thrown = ErrorToThrow(rt.raised)]
    /\ UNCHANGED <<now, beyondRT>>

\* the run is over; the manager is used again
RTAgain ==
    /\ rt.pc \in {"returned", "thrown"}
    /\ rt' = RTFresh
    /\ UNCHANGED <<now, beyondRT>>

(***************************************************************************)
(* Callers of execute().  A call is idle, or its wrapped operation is      *)
(* running (between `await operation()` and its settlement).  cbx.last     *)
(* records the last step and what the breaker looked like before it;       *)
(* cbx.failStreak counts the failed calls since the last success or reset; *)
(* cbx.tripAt is the time of the last failure that completed such a run of *)
(* failureThreshold failures, the breaker not reset since; cbx.pure holds  *)
(* as long as no reset, forceOpen or forceClose was issued.                *)
(***************************************************************************)
CallIds == 1..MaxCalls

IdleCall == [pc |-> "idle", admittedIn |-> "none", trial |-> FALSE]

\* kind: the step; call: the caller; before: the breaker state before the step;
\* due: the breaker was OPEN with its nextRetryTime reached before the step;
\* admittedIn / trial: of the call the step is about; invoked: the wrapped
\* operation was started by this call
Event(kind, i, before, due, c, invoked) ==
    [kind |-> kind, call |-> i, before |-> before, due |-> due,
     admittedIn |-> c.admittedIn, trial |-> c.trial, invoked |-> invoked]

NoEvent == Event("none", 0, "CLOSED", FALSE, IdleCall, FALSE)

CBXFresh ==
    [calls |-> [i \in CallIds |-> IdleCall], last |-> NoEvent,
     failStreak |-> 0, tripAt |-> Null, pure |-> TRUE]

CBIdle == cb = CBFresh /\ cbx = CBXFresh

Due(c, t) == c.state = "OPEN" /\ c.nextRetryTime # Null /\ t >= c.nextRetryTime

\* execute(operation), up to `await operation()`: it throws the circuit-open
\* error, or the operation starts
CBExecute(i) ==
    /\ cbx.calls[i].pc = "idle"
    /\ LET r == IsCallAllowed(cb, now)
           isTrial == Due(cb, now)
           c == IF r.allowed
                THEN [pc |-> "running", admittedIn |-> r.cb.state,
                      trial |-> isTrial]
                ELSE IdleCall
       IN  /\ cb' = r.cb
           /\ cbx' = [cbx EXCEPT
                 !.calls[i] = c,
                 !.last = Event(IF r.allowed THEN "admit" ELSE "reject", i, cb.state,
                                isTrial, c, r.allowed)]
    /\ UNCHANGED <<now, beyondCB>>

\* execute(operation): the operation resolved
CBOpSuccess(i) ==
    /\ cbx.calls[i].pc = "running"
    /\ cb.successCount < MaxCount
    /\ cb' = OnSuccess(cb)
    /\ cbx' = [cbx EXCEPT
          !.calls[i] = IdleCall,
          !.last = Event("success", i, cb.state, FALSE, cbx.calls[i], TRUE),
          !.failStreak = 0]
    /\ UNCHANGED <<now, beyondCB>>

\* execute(operation): the operation rejected
CBOpFailure(i) ==
    /\ cbx.calls[i].pc = "running"
    /\ cb.failureCount < MaxCount
    /\ cb' = OnFailure(cb, now)
    /\ LET streak == IF cbx.failStreak < MaxCount THEN cbx.failStreak + 1
                     ELSE cbx.failStreak
       IN cbx' = [cbx EXCEPT
             !.calls[i] = IdleCall,
             !.last = Event("failure", i, cb.state, FALSE, cbx.calls[i], TRUE),
             !.failStreak = streak,
             !.tripAt = IF streak >= CBFailureThreshold THEN now ELSE @]
    /\ UNCHANGED <<now, beyondCB>>

\* reset() called by the application (resetCircuitBreaker)
CBReset ==
    /\ cb # CBFresh
    /\ cb' = Reset(cb)
    /\ cbx' = [cbx EXCEPT
          !.pure = FALSE,
          !.last = Event("reset", 0, cb.state, FALSE, IdleCall, FALSE),
          !.failStreak = 0, !.tripAt = Null]
    /\ UNCHANGED <<now, beyondCB>>

\* forceOpen()
CBForceOpen ==
    /\ cb' = ForceOpen(cb, now)
    /\ cb' # cb
    /\ cbx' = [cbx EXCEPT
          !.pure = FALSE,
          !.last = Event("forceOpen", 0, cb.state, FALSE, IdleCall, FALSE)]
    /\ UNCHANGED <<now, beyondCB>>

\* forceClose()
CBForceClose ==
    /\ cb # CBFresh
    /\ cb' = ForceClose(cb)
    /\ cbx' = [cbx EXCEPT
          !.pure = FALSE,
          !.last = Event("forceClose", 0, cb.state, FALSE, IdleCall, FALSE),
          !.failStreak = 0, !.tripAt = Null]
    /\ UNCHANGED <<now, beyondCB>>

\* isCircuitOpen(): a query that runs isCallAllowed() and keeps its state change
CBIsCircuitOpen ==
    /\ cb.state = "OPEN"
    /\ cb' = IsCallAllowed(cb, now).cb
    /\ cb' # cb
    /\ cbx' = [cbx EXCEPT
          !.last = Event("query", 0, cb.state, TRUE, IdleCall, FALSE)]
    /\ UNCHANGED <<now, beyondCB>>

\* the clock advances
CBTick ==
    /\ now < CBMaxTime
    /\ now' = now + 1
    /\ cbx' = [cbx EXCEPT
          !.last = Event("tick", 0, cb.state, FALSE, IdleCall, FALSE)]
    /\ UNCHANGED <<cb, beyondCB>>


(***************************************************************************)
(* OfflineManagerService                                                   *)
(* A queued report is [report, timestamp, attempts].  oq.pass holds the    *)
(* records of `reportsToProcess` the running pass has not settled yet (its *)
(* head is the one whose send is awaited); oq.timers counts the pending    *)
(* setTimeout(() => this.processQueue(), 1000).                            *)
(***************************************************************************)
ProcessBatchSize == 5
MaxAttempts == 3

QueuedReport(report, t) == [report |-> report, timestamp |-> t, attempts |-> 0]

\* the fields after the constructor (nothing persisted) and configure(),
\* setSendReportFunction() of ErrorExplorerService.initialize
OQFresh(hasStore) ==
    [queue |-> <<>>, store |-> <<>>, hasStore |-> hasStore,
     maxQueueSize |-> MaxQueueSize, maxAge |-> MaxAge, hasSend |-> TRUE,
     isProcessing |-> FALSE, pass |-> <<>>, timers |-> 0]

\* cleanupQueue()
CleanupQueue(q, t) ==
    LET Keep(item) == item.timestamp > t - q.maxAge
    IN  [q EXCEPT !.queue = SelectSeq(@, Keep)]

\* JSON.stringify(this.queue): the text lists, record by record, the report,
\* the timestamp and the attempts
Stringify(queue) ==
    [i \in 1..Len(queue) |-> <<queue[i].report, queue[i].timestamp, queue[i].attempts>>]

\* JSON.parse(serializedQueue)
Parse(text) ==
    [i \in 1..Len(text) |->
        [report |-> text[i][1], timestamp |-> text[i][2], attempts |-> text[i][3]]]

\* saveQueue(): localStorage.setItem of the serialized queue, if there is a store
SaveQueue(q) == IF q.hasStore THEN [q EXCEPT !.store = Stringify(q.queue)] ELSE q

\* loadQueue(), which the constructor calls while maxAge has its initial value
LoadQueue(q, t) ==
    IF q.hasStore /\ Len(q.store) > 0
    THEN [CleanupQueue([q EXCEPT !.queue = Parse(q.store), !.maxAge = DayMs], t)
            EXCEPT !.maxAge = q.maxAge]
    ELSE q

\* a new instance over the store q leaves behind: the constructor, then
\* configure() and setSendReportFunction() as for q
Constructed(q, t) ==
    LoadQueue([OQFresh(q.hasStore) EXCEPT !.store = q.store,
                                          !.maxQueueSize = q.maxQueueSize,
                                          !.maxAge = q.maxAge,
                                          !.hasSend = q.hasSend], t)

\* queueReport(report)
QueueReport(q, report, t) ==
    LET pushed == Append(q.queue, QueuedReport(report, t))
        capped == IF Len(pushed) > q.maxQueueSize THEN Tail(pushed) ELSE pushed
    IN  SaveQueue(CleanupQueue([q EXCEPT !.queue = capped], t))

\* the guard of processQueue() without its isProcessing test
ProcessQueueRunsReentrant(q, isOnline) == q.hasSend /\ isOnline

\* the guard of processQueue()
ProcessQueueRuns(q, isOnline) == q.hasSend /\ ~q.isProcessing /\ isOnline

\* the end of a pass: saveQueue, the follow-up timer, the finally block
ProcessQueueEnd(q, isOnline) ==
    LET saved == SaveQueue(q)
    IN  [saved EXCEPT !.timers = IF Len(q.queue) > 0 /\ isOnline THEN @ + 1 ELSE @,
                      !.isProcessing = FALSE]

\* processQueue() taking its records with slice(0, batchSize): they stay queued
ProcessQueueBeginKeeping(q, isOnline) ==
    LET n == IF Len(q.queue) < ProcessBatchSize THEN Len(q.queue) ELSE ProcessBatchSize
        taken == [q EXCEPT !.isProcessing = TRUE,
                           !.pass = SubSeq(q.queue, 1, n)]
    IN  IF n = 0 THEN ProcessQueueEnd(taken, isOnline) ELSE taken

\* processQueue() up to its first await: queue.splice(0, batchSize), and the
\* send of the first record is started; with nothing to process the pass ends
ProcessQueueBegin(q, isOnline) ==
    LET n == IF Len(q.queue) < ProcessBatchSize THEN Len(q.queue) ELSE ProcessBatchSize
        taken == [q EXCEPT !.isProcessing = TRUE,
                           !.pass = SubSeq(q.queue, 1, n),
                           !.queue = SubSeq(q.queue, n + 1, Len(q.queue))]
    IN  IF n = 0 THEN ProcessQueueEnd(taken, isOnline) ELSE taken

\* the catch block of the pass: `this.queue.unshift(queuedReport)`
Requeue(queue, item) == <<item>> \o queue

\* the awaited send settled, a failed record being put back whatever its attempts
SendSettledUncapped(q, ok, isOnline) ==
    LET item == [q.pass[1] EXCEPT !.attempts = IF ok THEN @ ELSE @ + 1]
        queue == IF ~ok THEN Requeue(q.queue, item) ELSE q.queue
        next == [q EXCEPT !.queue = queue, !.pass = Tail(q.pass)]
    IN  IF Len(next.pass) = 0 THEN ProcessQueueEnd(next, isOnline) ELSE next

\* the awaited send of the head of the pass settled: the catch block on failure,
\* then the next record's send is started or the pass ends
SendSettled(q, ok, isOnline) ==
    LET item == [q.pass[1] EXCEPT !.attempts = IF ok THEN @ ELSE @ + 1]
        queue == IF ~ok /\ item.attempts < MaxAttempts THEN Requeue(q.queue, item)
                 ELSE q.queue
        next == [q EXCEPT !.queue = queue, !.pass = Tail(q.pass)]
    IN  IF Len(next.pass) = 0 THEN ProcessQueueEnd(next, isOnline) ELSE next

\* clearQueue()
ClearQueue(q) == SaveQueue([q EXCEPT !.queue = <<>>])

(***************************************************************************)
(* Callers of the offline manager.  oqx.next is the next report to be      *)
(* queued (reports are numbered in submission order), oqx.handed counts    *)
(* how often each report was handed to the send function, oqx.back lists   *)
(* the reports the running pass has put back, in the order the pass took   *)
(* them, oqx.restarts counts the page reloads, oqx.last is the last step   *)
(* taken.                                                                  *)
(***************************************************************************)
ReportIds == 1..MaxReports

OQEvent(kind, report, ran) == [kind |-> kind, report |-> report, ran |-> ran]

OQXFresh ==
    [next |-> 1, handed |-> [r \in ReportIds |-> 0], back |-> <<>>, restarts |-> 0,
     last |-> OQEvent("none", 0, FALSE)]

OQIdle == online = TRUE /\ oq = OQFresh(TRUE) /\ oqx = OQXFresh

\* the record whose send the pass of q has just started, counted as handed
Handing(q, before, handed) ==
    IF Len(q.pass) > 0 /\ (Len(before.pass) = 0 \/ Len(q.pass) < Len(before.pass))
    THEN [handed EXCEPT ![q.pass[1].report] = @ + 1]
    ELSE handed

\* the reports put back so far by the pass of q: none when a call of
\* processQueue was made with no pass running, one more when the catch block
\* has put the settled record back
PutBack(q, before, back) ==
    IF Len(before.pass) = 0 THEN <<>>
    ELSE IF Len(q.queue) > Len(before.queue) THEN Append(back, q.queue[1].report)
    ELSE back

\* queueReport(report) with a new report
OQQueueReport ==
    /\ oqx.next <= MaxReports
    /\ oq' = QueueReport(oq, oqx.next, now)
    /\ oqx' = [oqx EXCEPT !.next = @ + 1, !.last = OQEvent("queueReport", oqx.next, TRUE)]
    /\ UNCHANGED <<now, online, beyondOQ>>

\* processQueue() called by flushQueue
OQProcessQueue ==
    /\ oq.timers < MaxTimers
    /\ LET runs == ProcessQueueRuns(oq, online)
           q == IF runs THEN ProcessQueueBegin(oq, online) ELSE oq
       IN  /\ oq' = q
           /\ oqx' = [oqx EXCEPT !.handed = Handing(q, oq, @), !.back = PutBack(q, oq, @),
                                 !.last = OQEvent("processQueue", 0, runs)]
    /\ UNCHANGED <<now, online, beyondOQ>>

\* a follow-up timer fires: processQueue()
OQTimerFires ==
    /\ oq.timers > 0
    /\ LET armed == [oq EXCEPT !.timers = @ - 1]
           runs == ProcessQueueRuns(armed, online)
           q == IF runs THEN ProcessQueueBegin(armed, online) ELSE armed
       IN  /\ oq' = q
           /\ oqx' = [oqx EXCEPT !.handed = Handing(q, oq, @), !.back = PutBack(q, oq, @),
                                 !.last = OQEvent("timer", 0, runs)]
    /\ UNCHANGED <<now, online, beyondOQ>>

\* the send function resolved for the head of the pass
OQSendSuccess ==
    /\ Len(oq.pass) > 0
    /\ LET q == SendSettled(oq, TRUE, online)
       IN  /\ oq' = q
           /\ oqx' = [oqx EXCEPT !.handed = Handing(q, oq, @), !.back = PutBack(q, oq, @),
                                 !.last = OQEvent("sent", oq.pass[1].report, TRUE)]
    /\ UNCHANGED <<now, online, beyondOQ>>

\* the send function rejected for the head of the pass
OQSendFailure ==
    /\ Len(oq.pass) > 0
    /\ LET q == SendSettled(oq, FALSE, online)
       IN  /\ oq' = q
           /\ oqx' = [oqx EXCEPT !.handed = Handing(q, oq, @), !.back = PutBack(q, oq, @),
                                 !.last = OQEvent("failed", oq.pass[1].report, TRUE)]
    /\ UNCHANGED <<now, online, beyondOQ>>

\* the browser goes offline: onOffline() does nothing
OQGoOffline ==
    /\ online
    /\ online' = FALSE
    /\ oqx' = [oqx EXCEPT !.last = OQEvent("offline", 0, FALSE)]
    /\ UNCHANGED <<now, oq, beyondOQ>>

\* the browser comes back online: the 'online' listener calls processQueue()
OQGoOnline ==
    /\ ~online
    /\ oq.timers < MaxTimers
    /\ online' = TRUE
    /\ LET runs == ProcessQueueRuns(oq, TRUE)
           q == IF runs THEN ProcessQueueBegin(oq, TRUE) ELSE oq
       IN  /\ oq' = q
           /\ oqx' = [oqx EXCEPT !.handed = Handing(q, oq, @), !.back = PutBack(q, oq, @),
                                 !.last = OQEvent("online", 0, runs)]
    /\ UNCHANGED <<now, beyondOQ>>

\* the page is reloaded: a new OfflineManagerService is constructed over the
\* store, the old instance with its pass and its timers is gone
OQRestart ==
    /\ oqx.restarts < MaxRestarts
    /\ oq' = Constructed(oq, now)
    /\ oqx' = [oqx EXCEPT !.back = <<>>, !.restarts = @ + 1, !.last = OQEvent("restart", 0, TRUE)]
    /\ UNCHANGED <<now, online, beyondOQ>>

\* clearQueue()
OQClearQueue ==
    /\ oq' = ClearQueue(oq)
    /\ oqx' = [oqx EXCEPT !.last = OQEvent("clearQueue", 0, TRUE)]
    /\ UNCHANGED <<now, online, beyondOQ>>

\* time passes
OQTick ==
    /\ now < OQMaxTime
    /\ now' = now + 1
    /\ oqx' = [oqx EXCEPT !.last = OQEvent("tick", 0, FALSE)]
    /\ UNCHANGED <<online, oq, beyondOQ>>

(***************************************************************************)
(* RateLimiterService, as configured by initializeServices                 *)
(***************************************************************************)
MaxRequestsPerMinute == 10
WindowMs == 60000
DuplicateErrorWindow == 5000

Fingerprints == 1..NumFingerprints

\* the limiter after configure(config); the service passes its own settings
RLConfigured(config) ==
    [config |-> config, requests |-> <<>>,
     errorFingerprints |-> [f \in Fingerprints |-> Null]]

RLFresh ==
    RLConfigured([maxRequests |-> MaxRequestsPerMinute, windowMs |-> WindowMs,
                  duplicateErrorWindow |-> DuplicateErrorWindow])

\* cleanupOldRequests(now)
CleanupOldRequests(rl, t) ==
    LET Recent(req) == req.timestamp > t - rl.config.windowMs
    IN  [rl EXCEPT !.requests = SelectSeq(@, Recent)]

\* cleanupOldFingerprints(now)
CleanupOldFingerprints(rl, t) ==
    [rl EXCEPT !.errorFingerprints =
        [f \in Fingerprints |->
            IF @[f] # Null /\ @[f] <= t - rl.config.duplicateErrorWindow
            THEN Null ELSE @[f]]]

\* cleanup()
Cleanup(rl, t) == CleanupOldFingerprints(CleanupOldRequests(rl, t), t)

\* canMakeRequest() admitting one request more than maxRequests
CanMakeRequestInclusive(rl, t) ==
    LET cleaned == CleanupOldRequests(rl, t)
    IN  [ok |-> Len(cleaned.requests) <= rl.config.maxRequests, rl |-> cleaned]

\* canMakeRequest(): the answer and the limiter after its cleanup
CanMakeRequest(rl, t) ==
    LET cleaned == CleanupOldRequests(rl, t)
    IN  [ok |-> Len(cleaned.requests) < rl.config.maxRequests, rl |-> cleaned]

\* canReportError(fingerprint) answering true from the end of the window on
CanReportErrorAtWindow(rl, f, t) ==
    LET lastReported == rl.errorFingerprints[f]
    IN  IF ~Truthy(lastReported) THEN TRUE
        ELSE (t - lastReported) >= rl.config.duplicateErrorWindow

\* canReportError(fingerprint)
CanReportError(rl, f, t) ==
    LET lastReported == rl.errorFingerprints[f]
    IN  IF ~Truthy(lastReported) THEN TRUE
        ELSE (t - lastReported) > rl.config.duplicateErrorWindow

\* recordRequest(fingerprint) forgetting the fingerprint
RecordRequestOnly(rl, f, t) ==
    [rl EXCEPT !.requests = Append(@, [timestamp |-> t, fingerprint |-> f])]

\* recordRequest(fingerprint)
RecordRequest(rl, f, t) ==
    IF Truthy(f)
    THEN [rl EXCEPT !.requests = Append(@, [timestamp |-> t, fingerprint |-> f]),
                    !.errorFingerprints[f] = t]
    ELSE [rl EXCEPT !.requests = Append(@, [timestamp |-> t, fingerprint |-> f])]

\* getRemainingRequests()
GetRemainingRequests(rl, t) ==
    LET cleaned == CleanupOldRequests(rl, t)
        left == rl.config.maxRequests - Len(cleaned.requests)
    IN  [remaining |-> IF left > 0 THEN left ELSE 0, rl |-> cleaned]

(***************************************************************************)
(* A RateLimiterService of its own, configured with a short window and     *)
(* called in any order while the clock advances one millisecond at a time. *)
(* rlx.log keeps every recordRequest call, also those the limiter evicted. *)
(***************************************************************************)
RLMaxTime == 5
MaxRecords == 3
ConfMaxRequests == 2
ConfWindowMs == 3
ConfDuplicateErrorWindow == 2

RLShort ==
    RLConfigured([maxRequests |-> ConfMaxRequests, windowMs |-> ConfWindowMs,
                  duplicateErrorWindow |-> ConfDuplicateErrorWindow])

RLEvent(kind, f, result, count) ==
    [kind |-> kind, fingerprint |-> f, result |-> result, count |-> count]

NoRLEvent == RLEvent("none", Null, FALSE, 0)

\* swept: cleanup() has run at the present instant
RLXFresh == [log |-> <<>>, last |-> NoRLEvent, swept |-> FALSE]

\* the fingerprints of the errors reported to this limiter
RLFingerprints == {1, 2}

RLIdle == rateLimiter = RLFresh /\ rlx = RLXFresh

\* recordRequest(f); f = Null is the call without a fingerprint
RLRecordRequest(f) ==
    /\ Len(rlx.log) < MaxRecords
    /\ rateLimiter' = RecordRequest(rateLimiter, f, now)
    /\ rlx' = [rlx EXCEPT !.log = Append(@, [timestamp |-> now, fingerprint |-> f]),
                          !.last = NoRLEvent]
    /\ UNCHANGED <<now, beyondRL>>

RLCanMakeRequest ==
    LET r == CanMakeRequest(rateLimiter, now)
    IN  /\ rateLimiter' = r.rl
        /\ rlx' = [rlx EXCEPT !.last = RLEvent("canMakeRequest", Null, r.ok, 0)]
        /\ UNCHANGED <<now, beyondRL>>

RLCanReportError(f) ==
    /\ rlx' = [rlx EXCEPT !.last = RLEvent("canReportError", f, CanReportError(rateLimiter, f, now), 0)]
    /\ UNCHANGED <<now, rateLimiter, beyondRL>>

RLGetRemainingRequests ==
    LET r == GetRemainingRequests(rateLimiter, now)
    IN  /\ rateLimiter' = r.rl
        /\ rlx' = [rlx EXCEPT !.last = RLEvent("getRemainingRequests", Null, r.remaining > 0, r.remaining)]
        /\ UNCHANGED <<now, beyondRL>>

\* cleanup(), which the service calls once a minute
RLCleanup ==
    /\ rateLimiter' = Cleanup(rateLimiter, now)
    /\ rlx' = [rlx EXCEPT !.last = NoRLEvent, !.swept = TRUE]
    /\ UNCHANGED <<now, beyondRL>>

RLTick ==
    /\ now < RLMaxTime
    /\ now' = now + 1
    /\ rlx' = [rlx EXCEPT !.last = NoRLEvent, !.swept = FALSE]
    /\ UNCHANGED <<rateLimiter, beyondRL>>

(***************************************************************************)
(* QuotaManagerService, as configured by initializeServices                *)
(***************************************************************************)
DailyLimit == 1000
MonthlyLimit == 10000
PayloadSizeLimit == 1048576
BurstLimit == 50
BurstWindowMs == 60000

\* getNextDayReset(): the next midnight, for a clock that starts at midnight
GetNextDayReset(t) == ((t \div DayMs) + 1) * DayMs

\* getNextMonthReset(): the first of next month, for a clock that starts at the
\* midnight before the first of a month of 20 days
GetNextMonthReset(t) == IF t < DayMs THEN DayMs ELSE 21 * DayMs

\* the configuration the constructor sets, which is also the one
\* initializeServices passes to configure()
QuotaDefaults ==
    [dailyLimit |-> DailyLimit, monthlyLimit |-> MonthlyLimit,
     payloadSizeLimit |-> PayloadSizeLimit, burstLimit |-> BurstLimit,
     burstWindowMs |-> BurstWindowMs]

\* createInitialState()
QuotaFresh(t) ==
    [config |-> QuotaDefaults,
     daily |-> [used |-> 0, resetTime |-> GetNextDayReset(t)],
     monthly |-> [used |-> 0, resetTime |-> GetNextMonthReset(t)],
     burst |-> [used |-> 0, resetTime |-> t + QuotaDefaults.burstWindowMs]]

\* checkAndResetQuotas() resetting a counter only after its reset time
CheckAndResetQuotasLate(q, t) ==
    [config |-> q.config,
     burst |-> IF t > q.burst.resetTime
               THEN [used |-> 0, resetTime |-> t + q.config.burstWindowMs] ELSE q.burst,
     daily |-> IF t > q.daily.resetTime
               THEN [used |-> 0, resetTime |-> GetNextDayReset(t)] ELSE q.daily,
     monthly |-> IF t > q.monthly.resetTime
                 THEN [used |-> 0, resetTime |-> GetNextMonthReset(t)] ELSE q.monthly]

\* checkAndResetQuotas()
CheckAndResetQuotas(q, t) ==
    [config |-> q.config,
     burst |-> IF t >= q.burst.resetTime
               THEN [used |-> 0, resetTime |-> t + q.config.burstWindowMs] ELSE q.burst,
     daily |-> IF t >= q.daily.resetTime
               THEN [used |-> 0, resetTime |-> GetNextDayReset(t)] ELSE q.daily,
     monthly |-> IF t >= q.monthly.resetTime
                 THEN [used |-> 0, resetTime |-> GetNextMonthReset(t)] ELSE q.monthly]

\* the constructor, then configure(config): the state is loaded from
\* localStorage or created, and the reset check runs under the defaults
QuotaConfigured(loaded, config, t) ==
    [CheckAndResetQuotas([loaded EXCEPT !.config = QuotaDefaults], t)
        EXCEPT !.config = config]

\* canSendError(estimatedSize) testing the daily limit first
CanSendErrorDailyFirst(q, estimatedSize, t) ==
    LET c == CheckAndResetQuotas(q, t)
        reason == IF c.daily.used >= c.config.dailyLimit THEN "Daily limit exceeded"
                  ELSE IF c.burst.used >= c.config.burstLimit THEN "Burst limit exceeded"
                  ELSE IF c.monthly.used >= c.config.monthlyLimit
                       THEN "Monthly limit exceeded"
                  ELSE IF estimatedSize > c.config.payloadSizeLimit
                       THEN "Payload size limit exceeded"
                  ELSE "none"
    IN  [allowed |-> reason = "none", reason |-> reason, quota |-> c]

\* canSendError(estimatedSize): the answer and the state after the reset check
CanSendError(q, estimatedSize, t) ==
    LET c == CheckAndResetQuotas(q, t)
        reason == IF c.burst.used >= c.config.burstLimit THEN "Burst limit exceeded"
                  ELSE IF c.daily.used >= c.config.dailyLimit THEN "Daily limit exceeded"
                  ELSE IF c.monthly.used >= c.config.monthlyLimit
                       THEN "Monthly limit exceeded"
                  ELSE IF estimatedSize > c.config.payloadSizeLimit
                       THEN "Payload size limit exceeded"
                  ELSE "none"
    IN  [allowed |-> reason = "none", reason |-> reason, quota |-> c]

\* QuotaManagerService.recordErrorSent(payloadSize)
QuotaRecordErrorSent(q, t) ==
    LET c == CheckAndResetQuotas(q, t)
    IN  [c EXCEPT !.daily.used = @ + 1, !.monthly.used = @ + 1, !.burst.used = @ + 1]

\* getUsageStats(): the usage returned and the state after the reset check
GetUsageStats(q, t) ==
    LET c == CheckAndResetQuotas(q, t)
    IN  [usage |-> [daily |-> [used |-> c.daily.used, limit |-> c.config.dailyLimit,
                               resetTime |-> c.daily.resetTime],
                    monthly |-> [used |-> c.monthly.used, limit |-> c.config.monthlyLimit,
                                 resetTime |-> c.monthly.resetTime],
                    burst |-> [used |-> c.burst.used, limit |-> c.config.burstLimit,
                               resetTime |-> c.burst.resetTime]],
         quota |-> c]

\* Math.max(0, x)
AtLeastZero(x) == IF x > 0 THEN x ELSE 0

\* getRemainingQuota(): the remainders returned and the state after the reset check
GetRemainingQuota(q, t) ==
    LET c == CheckAndResetQuotas(q, t)
    IN  [remaining |-> [daily |-> AtLeastZero(c.config.dailyLimit - c.daily.used),
                        monthly |-> AtLeastZero(c.config.monthlyLimit - c.monthly.used),
                        burst |-> AtLeastZero(c.config.burstLimit - c.burst.used)],
         quota |-> c]

(***************************************************************************)
(* A QuotaManagerService of its own, configured with small limits, whose   *)
(* state may come from an earlier session.  qx.before is the state and     *)
(* qx.at the time at which the last access began; qx.sent lists the times  *)
(* of the recordErrorSent calls.                                           *)
(***************************************************************************)
ConfBurstLimit == 2
ConfDailyLimit == 3
ConfMonthlyLimit == 4
MaxSent == 4

\* the instants (in ms) at which the quota manager is used: the start, the end
\* of the first burst window, the next midnight (the first of the month), and
\* the end of the burst window begun at that midnight
QuotaInstants == {1000, 1000 + BurstWindowMs, DayMs, DayMs + BurstWindowMs}

QuotaShort ==
    [QuotaDefaults EXCEPT !.burstLimit = ConfBurstLimit, !.dailyLimit = ConfDailyLimit,
                          !.monthlyLimit = ConfMonthlyLimit]

\* what saveState() may have left in localStorage: counters of an earlier
\* session, which ended before or within the present day and burst window
SavedStates ==
    {[config |-> QuotaDefaults,
      daily |-> [used |-> d, resetTime |-> dr],
      monthly |-> [used |-> m, resetTime |-> DayMs],
      burst |-> [used |-> b, resetTime |-> br]] :
        d \in 0..ConfDailyLimit, m \in 0..ConfMonthlyLimit, b \in 0..ConfBurstLimit,
        dr \in {0, DayMs}, br \in {500, 1000 + BurstWindowMs}}

LoadedStates(t) ==
    {QuotaFresh(t)} \cup
    {q \in SavedStates : q.burst.used <= q.daily.used /\ q.daily.used <= q.monthly.used}

\* the payload sizes asked about: a report's, and one byte over the limit
PayloadSizes == {EstimatedSize, PayloadSizeLimit + 1}

QuotaEvent(kind, size, allowed, reason) ==
    [kind |-> kind, size |-> size, allowed |-> allowed, reason |-> reason]

NoQuotaEvent == QuotaEvent("none", 0, FALSE, "none")

QXFresh(q) == [sent |-> <<>>, last |-> NoQuotaEvent, before |-> q, at |-> 0]

QuotaIdle == quota = QuotaFresh(1) /\ qx = QXFresh(QuotaFresh(1))

QCanSendError(size) ==
    LET r == CanSendError(quota, size, now)
    IN  /\ quota' = r.quota
        /\ qx' = [qx EXCEPT !.last = QuotaEvent("canSendError", size, r.allowed, r.reason),
                            !.before = quota, !.at = now]
        /\ UNCHANGED <<now, beyondQuota>>

QRecordErrorSent ==
    /\ Len(qx.sent) < MaxSent
    /\ quota' = QuotaRecordErrorSent(quota, now)
    /\ qx' = [qx EXCEPT !.sent = Append(@, now),
                        !.last = QuotaEvent("recordErrorSent", 0, FALSE, "none"),
                        !.before = quota, !.at = now]
    /\ UNCHANGED <<now, beyondQuota>>

QGetUsageStats ==
    /\ quota' = GetUsageStats(quota, now).quota
    /\ qx' = [qx EXCEPT !.last = QuotaEvent("getUsageStats", 0, FALSE, "none"),
                        !.before = quota, !.at = now]
    /\ UNCHANGED <<now, beyondQuota>>

QGetRemainingQuota ==
    /\ quota' = GetRemainingQuota(quota, now).quota
    /\ qx' = [qx EXCEPT !.last = QuotaEvent("getRemainingQuota", 0, FALSE, "none"),
                        !.before = quota, !.at = now]
    /\ UNCHANGED <<now, beyondQuota>>

\* time passes, up to the next instant
QTick ==
    /\ \E t \in QuotaInstants : t > now
    /\ now' = Min({t \in QuotaInstants : t > now})
    /\ qx' = [qx EXCEPT !.last = NoQuotaEvent]
    /\ UNCHANGED <<quota, beyondQuota>>

(***************************************************************************)
(* BatchManagerService, as configured by initializeServices.               *)
(* batchTimeout is the time the armed timer is due at, or Null.            *)
(***************************************************************************)
BatchSize == 10
BatchTimeout == 5000
MaxPayloadSize == 1048576

\* a batch manager after configure(config)
BatchConfigured(config) ==
    [currentBatch |-> <<>>, batchTimeout |-> Null, totalErrors |-> 0, totalBatches |-> 0,
     config |-> config]

BatchFresh ==
    BatchConfigured([batchSize |-> BatchSize, batchTimeout |-> BatchTimeout,
                     maxPayloadSize |-> MaxPayloadSize])

\* the bytes an item adds to the serialized batch: what the item says, or the
\* size of the pipeline's reports
ItemSize(error) == IF "size" \in DOMAIN error THEN error.size ELSE EstimatedSize

\* calculatePayloadSize()
RECURSIVE CalculatePayloadSize(_)
CalculatePayloadSize(batch) ==
    IF batch = <<>> THEN 0 ELSE ItemSize(Head(batch)) + CalculatePayloadSize(Tail(batch))

\* shouldSendBatch()
ShouldSendBatch(b) ==
    \/ Len(b.currentBatch) >= b.config.batchSize
    \/ CalculatePayloadSize(b.currentBatch) >= b.config.maxPayloadSize

\* sendBatch() that hands the pending batch on without emptying it
SendBatchKeeping(b) ==
    IF Len(b.currentBatch) = 0 THEN [batch |-> b, sending |-> <<>>]
    ELSE [batch |-> [b EXCEPT !.batchTimeout = Null],
          sending |-> b.currentBatch]

\* sendBatch() up to its await: the pending batch is swapped out (`sending`) and
\* the timer is cleared
SendBatch(b) ==
    IF Len(b.currentBatch) = 0 THEN [batch |-> b, sending |-> <<>>]
    ELSE [batch |-> [b EXCEPT !.currentBatch = <<>>, !.batchTimeout = Null],
          sending |-> b.currentBatch]

\* addToBatch(error) that arms the timer anew at every call
AddToBatchRearming(b, error, t) ==
    LET pushed == [b EXCEPT !.currentBatch = Append(@, error), !.totalErrors = @ + 1]
    IN  IF ShouldSendBatch(pushed) THEN SendBatch(pushed)
        ELSE [batch |-> [pushed EXCEPT !.batchTimeout = t + b.config.batchTimeout],
              sending |-> <<>>]

\* addToBatch(error)
AddToBatch(b, error, t) ==
    LET pushed == [b EXCEPT !.currentBatch = Append(@, error), !.totalErrors = @ + 1]
    IN  IF ShouldSendBatch(pushed) THEN SendBatch(pushed)
        ELSE IF ~Truthy(pushed.batchTimeout)
             THEN [batch |-> [pushed EXCEPT !.batchTimeout = t + b.config.batchTimeout],
                   sending |-> <<>>]
        ELSE [batch |-> pushed, sending |-> <<>>]

\* the callback of startBatchTimeout
BatchTimeoutFired(b) ==
    IF Len(b.currentBatch) > 0 THEN SendBatch(b) ELSE [batch |-> b, sending |-> <<>>]

\* flush()
Flush(b) ==
    IF Len(b.currentBatch) > 0 THEN SendBatch(b) ELSE [batch |-> b, sending |-> <<>>]

(***************************************************************************)
(* SDKMonitorService counters                                              *)
(***************************************************************************)
MonitorFresh ==
    [errorsReported |-> 0, errorsDropped |-> 0, requestsStarted |-> 0,
     requestsSuccessful |-> 0, requestsFailed |-> 0]

RecordErrorReported(m) == [m EXCEPT !.errorsReported = @ + 1]
RecordErrorDropped(m) == [m EXCEPT !.errorsDropped = @ + 1]
RecordRequestStart(m) == [m EXCEPT !.requestsStarted = @ + 1]
RecordRequestSuccess(m) == [m EXCEPT !.requestsSuccessful = @ + 1]
RecordRequestFailure(m) == [m EXCEPT !.requestsFailed = @ + 1]

(***************************************************************************)
(* ErrorExplorerService under its default configuration: batching,         *)
(* compression, offline support and the circuit breaker enabled.           *)
(* A report is [id, fingerprint]; ids number the reportError calls.        *)
(***************************************************************************)
MaxOfflineQueueSize == 50

\* the offline manager as initializeServices configures it
OQDefault == [OQFresh(TRUE) EXCEPT !.maxQueueSize = MaxOfflineQueueSize, !.maxAge = DayMs]

\* the services after the constructor ran at time t
SdkFresh(t) ==
    [enabled |-> TRUE, isInitialized |-> TRUE, enableBatching |-> TRUE,
     enableOfflineSupport |-> TRUE, enableCompression |-> TRUE,
     rateLimiter |-> RLFresh, quotaManager |-> QuotaFresh(t),
     batchManager |-> BatchFresh, sdkMonitor |-> MonitorFresh]

\* reportError up to the admission decision: rate limit and duplicate check,
\* then the quota check; the services as the checks leave them
Admission(s, f, t) ==
    LET canMakeRequest == CanMakeRequest(s.rateLimiter, t)
        canReportError == CanReportError(s.rateLimiter, f, t)
        cleaned == [s EXCEPT !.rateLimiter = canMakeRequest.rl]
        quotaCheck == CanSendError(s.quotaManager, EstimatedSize, t)
        checked == [cleaned EXCEPT !.quotaManager = quotaCheck.quota]
    IN  IF ~canMakeRequest.ok \/ ~canReportError
        THEN [admitted |-> FALSE, reason |-> "rate_limit",
              sdk |-> [cleaned EXCEPT !.sdkMonitor = RecordErrorDropped(@)]]
        ELSE IF ~quotaCheck.allowed
        THEN [admitted |-> FALSE, reason |-> "other",
              sdk |-> [checked EXCEPT !.sdkMonitor = RecordErrorDropped(@)]]
        ELSE [admitted |-> TRUE, reason |-> "none", sdk |-> checked]

\* reportError after the report was handed on: recordErrorSent,
\* recordErrorReported, recordRequest
Recorded(s, f, t) ==
    [s EXCEPT !.quotaManager = QuotaRecordErrorSent(@, t),
              !.sdkMonitor = RecordErrorReported(@),
              !.rateLimiter = RecordRequest(@, f, t)]

\* reportError(error) that reads config.enabled only
ReportErrorWhenEnabled(s, report, t) ==
    IF ~s.enabled
    THEN [sdk |-> s, sending |-> <<>>, outcome |-> "ignored"]
    ELSE LET a == Admission(s, report.fingerprint, t)
             added == AddToBatch(a.sdk.batchManager, report, t)
         IN  IF ~a.admitted
             THEN [sdk |-> a.sdk, sending |-> <<>>, outcome |-> a.reason]
             ELSE [sdk |-> Recorded([a.sdk EXCEPT !.batchManager = added.batch],
                                    report.fingerprint, t),
                   sending |-> added.sending, outcome |-> "batched"]

\* reportError(error) with batching enabled, which runs without awaiting: the
\* services afterwards, the batch it made the batch manager send (or none), and
\* what became of the report
ReportError(s, report, t) ==
    IF ~s.enabled \/ ~s.isInitialized
    THEN [sdk |-> s, sending |-> <<>>, outcome |-> "ignored"]
    ELSE LET a == Admission(s, report.fingerprint, t)
             added == AddToBatch(a.sdk.batchManager, report, t)
         IN  IF ~a.admitted
             THEN [sdk |-> a.sdk, sending |-> <<>>, outcome |-> a.reason]
             ELSE [sdk |-> Recorded([a.sdk EXCEPT !.batchManager = added.batch],
                                    report.fingerprint, t),
                   sending |-> added.sending, outcome |-> "batched"]

(***************************************************************************)
(* The pipeline's environment.  sdkx.inflight lists the batch sends that   *)
(* have not settled: "compress" while sendBatchDirectly awaits the         *)
(* compression, "post" while it awaits the transport.  sdkx.wire is the    *)
(* log of the transport: the reports of every POST and whether the browser *)
(* was online.  sdkx.burst[f] follows the calls made with fingerprint f    *)
(* within BurstSpan of the first one; sdkx.scen follows a behaviour that   *)
(* starts offline, submits distinct errors, comes back online and flushes  *)
(* the queue, the application calling nothing else.                        *)
(***************************************************************************)
\* the instants (in ms) at which the pipeline's environment acts: a start, one
\* second later, and BatchTimeout (which is DuplicateErrorWindow) after the start
Instants == {1000, 2000, 6000}

NoBurst ==
    [firstAt |-> Null, admissible |-> FALSE, calls |-> 0, dropped |-> 0,
     admitted |-> 0, report |-> 0]

SdkXFresh(isOnline) ==
    [next |-> 1, seen |-> 0, burst |-> [f \in Fingerprints |-> NoBurst],
     scen |-> [phase |-> IF isOnline THEN "other" ELSE "offline", subs |-> <<>>],
     inflight |-> <<>>, wire |-> <<>>]

SdkIdle == sdk = SdkFresh(1) /\ sdkx = SdkXFresh(TRUE)

\* sendBatch hands a swapped-out batch to sendBatchDirectly: recordRequestStart,
\* then the compression is awaited or the POST is made at once
StartSend(s, x, sending, compress, isOnline) ==
    IF Len(sending) = 0 THEN [sdk |-> s, sdkx |-> x]
    ELSE [sdk |-> [s EXCEPT !.sdkMonitor = RecordRequestStart(@)],
          sdkx |-> [x EXCEPT
              !.inflight = Append(@, [batch |-> sending,
                                      pc |-> IF compress THEN "compress" ELSE "post"]),
              !.wire = IF compress THEN @
                       ELSE Append(@, [path |-> "batch", reports |-> sending,
                                       online |-> isOnline])]]

\* whether sendBatchDirectly awaits compress(): enabled, supported by the browser
\* and the batch over the threshold
MayCompress(s) == IF s.enableCompression THEN BOOLEAN ELSE {FALSE}

\* the burst of fingerprint f after a call at time t with this outcome
BurstAfter(b, id, t, admissible, outcome) ==
    LET started == IF b.firstAt = Null
                   THEN [NoBurst EXCEPT !.firstAt = t, !.admissible = admissible]
                   ELSE b
    IN  IF t - started.firstAt > BurstSpan THEN b
        ELSE [started EXCEPT
                !.calls = @ + 1,
                !.dropped = IF outcome \in {"rate_limit", "other"} THEN @ + 1 ELSE @,
                !.admitted = IF outcome = "batched" THEN @ + 1 ELSE @,
                !.report = IF outcome = "batched" /\ @ = 0 THEN id ELSE @]

\* the scenario after a submission of fingerprint f as report id
ScenAfterSubmission(scen, id, f, x) ==
    IF scen.phase = "offline" /\ x.burst[f].calls = 0 /\ Len(scen.subs) < 3
    THEN [scen EXCEPT !.subs = Append(@, id)]
    ELSE [scen EXCEPT !.phase = "other"]

\* reportError(error), one of at most `limit` calls: the error is one submitted
\* before or the next new one
PipeReportError(f, limit) ==
    /\ sdkx.next <= limit
    /\ f <= sdkx.seen + 1
    /\ \E compress \in MayCompress(sdk) :
        LET id == sdkx.next
            report == [id |-> id, fingerprint |-> f]
            r == ReportError(sdk, report, now)
            admissible == /\ CanMakeRequest(sdk.rateLimiter, now).ok
                          /\ CanSendError(sdk.quotaManager, EstimatedSize, now).allowed
            x == [sdkx EXCEPT
                    !.next = @ + 1,
                    !.seen = IF f > @ THEN f ELSE @,
                    !.burst[f] = BurstAfter(@, id, now, admissible, r.outcome),
                    !.scen = ScenAfterSubmission(@, id, f, sdkx)]
            started == StartSend(r.sdk, x, r.sending, compress, online)
        IN  /\ sdk' = started.sdk
            /\ sdkx' = started.sdkx
    /\ UNCHANGED <<now, oqVars, beyondSDK>>

\* the batch timer is due and its callback runs
PipeBatchTimer ==
    /\ sdk.batchManager.batchTimeout # Null
    /\ now >= sdk.batchManager.batchTimeout
    /\ Len(sdkx.inflight) < MaxInFlight
    /\ \E compress \in MayCompress(sdk) :
        LET fired == BatchTimeoutFired(sdk.batchManager)
            started == StartSend([sdk EXCEPT !.batchManager = fired.batch],
                                 sdkx,
                                 fired.sending, compress, online)
        IN  /\ sdk' = started.sdk
            /\ sdkx' = started.sdkx
    /\ UNCHANGED <<now, oqVars, beyondSDK>>

\* flushBatch()
PipeFlushBatch ==
    /\ Len(sdkx.inflight) < MaxInFlight
    /\ \E compress \in MayCompress(sdk) :
        LET flushed == IF sdk.enableBatching THEN Flush(sdk.batchManager)
                       ELSE [batch |-> sdk.batchManager, sending |-> <<>>]
            started == StartSend([sdk EXCEPT !.batchManager = flushed.batch],
                                 [sdkx EXCEPT !.scen.phase = "other"],
                                 flushed.sending, compress, online)
        IN  /\ sdk' = started.sdk
            /\ sdkx' = started.sdkx
    /\ UNCHANGED <<now, oqVars, beyondSDK>>

\* compress() settled, resolved or rejected: sendBatchDirectly POSTs the batch
PipeCompressed(i) ==
    /\ i \in 1..Len(sdkx.inflight)
    /\ sdkx.inflight[i].pc = "compress"
    /\ sdkx' = [sdkx EXCEPT
          !.inflight[i].pc = "post",
          !.wire = Append(@, [path |-> "batch", reports |-> sdkx.inflight[i].batch,
                              online |-> online])]
    /\ UNCHANGED <<now, sdk, oqVars, beyondSDK>>

\* the statuses the transport answers a batch with
BatchStatuses == {200, 401, 503}

\* the transport answered the POST of a batch: sendBatchDirectly and sendBatch
\* run to their ends
PipeBatchResponse(i, status) ==
    /\ i \in 1..Len(sdkx.inflight)
    /\ sdkx.inflight[i].pc = "post"
    /\ sdk' = IF status = 200
              THEN [sdk EXCEPT !.sdkMonitor = RecordRequestSuccess(@),
                               !.batchManager.totalBatches = @ + 1]
              ELSE [sdk EXCEPT !.sdkMonitor = RecordRequestFailure(@),
                               !.enabled = IF status = 401 \/ status = 403
                                           THEN FALSE ELSE @]
    /\ sdkx' = [sdkx EXCEPT
          !.inflight = SubSeq(@, 1, i - 1) \o SubSeq(@, i + 1, Len(@))]
    /\ UNCHANGED <<now, oqVars, beyondSDK>>

\* flushQueue()
PipeFlushQueue ==
    /\ oq.timers < MaxTimers
    /\ LET runs == sdk.enableOfflineSupport /\ ProcessQueueRuns(oq, online)
       IN  oq' = IF runs THEN ProcessQueueBegin(oq, online) ELSE oq
    /\ sdkx' = [sdkx EXCEPT
          !.scen.phase = IF @ = "online" THEN "flushed" ELSE @]
    /\ UNCHANGED <<now, online, oqx, sdk, beyondSDK>>

\* the browser goes offline
PipeGoOffline ==
    /\ online
    /\ online' = FALSE
    /\ sdkx' = [sdkx EXCEPT
          !.scen.phase = IF @ \in {"online", "flushed"} THEN "other" ELSE @]
    /\ UNCHANGED <<now, oq, oqx, sdk, beyondSDK>>

\* the browser comes back online: the offline manager's listener runs processQueue()
PipeGoOnline ==
    /\ ~online
    /\ oq.timers < MaxTimers
    /\ online' = TRUE
    /\ oq' = IF ProcessQueueRuns(oq, TRUE) THEN ProcessQueueBegin(oq, TRUE) ELSE oq
    /\ sdkx' = [sdkx EXCEPT
          !.scen.phase = IF @ = "offline" THEN "online" ELSE @]
    /\ UNCHANGED <<now, oqx, sdk, beyondSDK>>

\* the cleanup interval set up by initialize() fires
PipeCleanup ==
    /\ sdk' = [sdk EXCEPT !.rateLimiter = Cleanup(@, now)]
    /\ UNCHANGED <<now, sdkx, oqVars, beyondSDK>>

\* time passes, up to the next instant
PipeTick ==
    /\ \E t \in Instants : t > now
    /\ now' = Min({t \in Instants : t > now})
    /\ UNCHANGED <<sdkVars, oqVars, beyondSDK>>

(***************************************************************************)
(* ErrorExplorerService with enableBatching = false: reportError awaits    *)
(* sendReport, which queues the report when offline and else sends it      *)
(* through the circuit breaker and the retry manager.  dx.calls[i] is the  *)
(* i-th reportError call: where it is suspended, its fingerprint, the      *)
(* retry loop's attempt, and what has happened to it so far.               *)
(*   "post"   sendReportDirectly awaits the transport                      *)
(*   "delay"  executeWithRetry awaits its delay                            *)
(*   "flush"  sendReport awaits offlineManager.processQueue()              *)
(*   "resume" sendReport has settled without waiting for anything: the     *)
(*            rest of reportError runs after the caller's synchronous code *)
(*   "done"   the promise reportError returned has settled                 *)
(* status is the transport's latest answer to the call's own POST.         *)
(***************************************************************************)
MaxDirect == 2
DirMaxRequests == 1
MaxFlips == 1

\* the instants (in ms) at which this service's environment acts
DirInstants == {1000, 6000}

DirectIds == 1..MaxDirect

\* the statuses the transport answers a single report with
DirStatuses == {200, 401, 413, 503}

NoCall ==
    [pc |-> "idle", fingerprint |-> 0, attempt |-> 0, threw |-> FALSE,
     admitted |-> FALSE, sendFailed |-> FALSE, queued |-> FALSE, dropped |-> 0,
     promise |-> "none", status |-> 0]

\* flips counts the changes of navigator.onLine; acked holds the reports whose
\* POST the transport answered with 200
DirXFresh ==
    [next |-> 1, calls |-> [i \in DirectIds |-> NoCall], flips |-> 0, acked |-> {}]

DirIdle == dx = DirXFresh

\* the configuration of the service that sends directly
SdkDirect(t, offlineSupport) ==
    [SdkFresh(t) EXCEPT
        !.enableBatching = FALSE,
        !.enableOfflineSupport = offlineSupport,
        !.rateLimiter = RLConfigured([maxRequests |-> DirMaxRequests,
                                      windowMs |-> WindowMs,
                                      duplicateErrorWindow |-> DuplicateErrorWindow])]

\* initialize() hands the offline manager its send function only with offline support
OQDirect(offlineSupport) == [OQDefault EXCEPT !.hasSend = offlineSupport]

DirReport(i) == [id |-> i, fingerprint |-> dx.calls[i].fingerprint]

\* the rest of reportError once `await this.sendReport(report)` is over
Continuation(s, f, threw, t) ==
    IF threw THEN [s EXCEPT !.sdkMonitor = RecordErrorDropped(@)]
    ELSE Recorded(s, f, t)

\* the ghost fields of a call whose reportError has run to its end
Settled(call, threw) ==
    [call EXCEPT !.pc = "done", !.promise = "resolved",
                 !.dropped = IF threw THEN @ + 1 ELSE @]

\* sendReport's catch block: the report is queued, or the error is thrown on
Caught(s, q, report, t) ==
    IF s.enableOfflineSupport
    THEN [oq |-> QueueReport(q, report, t), threw |-> FALSE, queued |-> TRUE]
    ELSE [oq |-> q, threw |-> TRUE, queued |-> FALSE]

\* reportError(error) of a new error or of the first one again
DirReportError(f) ==
    /\ dx.next <= MaxDirect
    /\ f \in {1, dx.next}
    /\ LET i == dx.next
           report == [id |-> i, fingerprint |-> f]
           call == [NoCall EXCEPT !.fingerprint = f, !.promise = "pending"]
           a == Admission(sdk, f, now)
           allowed == IsCallAllowed(cb, now)
           caught == Caught(a.sdk, oq, report, now)
       IN  IF ~sdk.enabled \/ ~sdk.isInitialized
           THEN /\ dx' = [dx EXCEPT !.next = @ + 1,
                                    !.calls[i] = Settled(call, FALSE)]
                /\ UNCHANGED <<sdk, oq, cb>>
           ELSE IF ~a.admitted
           THEN /\ sdk' = a.sdk
                /\ dx' = [dx EXCEPT !.next = @ + 1,
                                    !.calls[i] = Settled(call, TRUE)]
                /\ UNCHANGED <<oq, cb>>
           ELSE IF sdk.enableOfflineSupport /\ ~online
           THEN /\ sdk' = a.sdk
                /\ oq' = QueueReport(oq, report, now)
                /\ dx' = [dx EXCEPT !.next = @ + 1,
                                    !.calls[i] = [call EXCEPT !.pc = "resume",
                                                              !.admitted = TRUE,
                                                              !.queued = TRUE]]
                /\ UNCHANGED cb
           ELSE IF ~allowed.allowed
           THEN /\ sdk' = a.sdk
                /\ cb' = allowed.cb
                /\ oq' = caught.oq
                /\ dx' = [dx EXCEPT !.next = @ + 1,
                                    !.calls[i] = [call EXCEPT !.pc = "resume",
                                                              !.admitted = TRUE,
                                                              !.sendFailed = TRUE,
                                                              !.threw = caught.threw,
                                                              !.queued = caught.queued]]
           ELSE /\ sdk' = [a.sdk EXCEPT !.sdkMonitor = RecordRequestStart(@)]
                /\ cb' = allowed.cb
                /\ dx' = [dx EXCEPT !.next = @ + 1,
                                    !.calls[i] = [call EXCEPT !.pc = "post",
                                                              !.admitted = TRUE]]
                /\ UNCHANGED oq
    /\ UNCHANGED <<now, online, beyondDirect>>

\* sendReport settled at once: the rest of reportError runs
DirResume(i) ==
    /\ dx.calls[i].pc = "resume"
    /\ sdk' = Continuation(sdk, dx.calls[i].fingerprint, dx.calls[i].threw, now)
    /\ dx' = [dx EXCEPT !.calls[i] = Settled(@, dx.calls[i].threw)]
    /\ UNCHANGED <<now, online, oq, cb, beyondDirect>>

\* the transport answered the POST of call i with 200: sendReportDirectly,
\* executeWithRetry and the breaker's execute return, sendReport runs
\* processQueue() and, unless a pass has records to send, reportError ends
DirPosted(i) ==
    /\ dx.calls[i].pc = "post"
    /\ LET s == [sdk EXCEPT !.sdkMonitor = RecordRequestSuccess(@)]
           runs == s.enableOfflineSupport /\ ProcessQueueRuns(oq, online)
           q == IF runs THEN ProcessQueueBegin(oq, online) ELSE oq
           waits == runs /\ q.isProcessing
       IN  /\ cb' = OnSuccess(cb)
           /\ oq' = q
           /\ sdk' = IF waits THEN s
                     ELSE Continuation(s, dx.calls[i].fingerprint, FALSE, now)
           /\ dx' = [dx EXCEPT !.calls[i] =
                        IF waits THEN [@ EXCEPT !.pc = "flush", !.status = 200]
                        ELSE Settled([@ EXCEPT !.status = 200], FALSE),
                                !.acked = @ \cup {i}]
    /\ UNCHANGED <<now, online, beyondDirect>>

\* the transport answered the POST of call i with an error status: the retry
\* manager waits to try again, or gives up and sendReport's catch block runs
DirPostFailed(i, status) ==
    /\ dx.calls[i].pc = "post"
    /\ status # 200
    /\ LET call == dx.calls[i]
           s == [sdk EXCEPT !.sdkMonitor = RecordRequestFailure(@),
                            !.enabled = IF status = 401 \/ status = 403
                                        THEN FALSE ELSE @]
           msg == SendReportDirectlyMessage(status)
           giveUp == \/ IsFinalAttempt(call.attempt, MaxRetriesDefault)
                     \/ ~ShouldRetry(msg, call.attempt, MaxRetriesDefault)
           caught == Caught(s, oq, DirReport(i), now)
       IN  IF giveUp
           THEN /\ cb' = OnFailure(cb, now)
                /\ oq' = caught.oq
                /\ sdk' = Continuation(s, call.fingerprint, caught.threw, now)
                /\ dx' = [dx EXCEPT !.calls[i] =
                            Settled([@ EXCEPT !.sendFailed = TRUE,
                                              !.queued = caught.queued,
                                              !.status = status],
                                    caught.threw)]
           ELSE /\ sdk' = s
                /\ dx' = [dx EXCEPT !.calls[i].pc = "delay",
                                    !.calls[i].status = status]
                /\ UNCHANGED <<cb, oq>>
    /\ UNCHANGED <<now, online, beyondDirect>>

\* the retry delay of call i is over: sendReportDirectly is invoked again
DirDelayElapsed(i) ==
    /\ dx.calls[i].pc = "delay"
    /\ sdk' = [sdk EXCEPT !.sdkMonitor = RecordRequestStart(@)]
    /\ dx' = [dx EXCEPT !.calls[i].pc = "post", !.calls[i].attempt = @ + 1]
    /\ UNCHANGED <<now, online, oq, cb, beyondDirect>>

\* the offline manager's send of the head of its pass settled with this status;
\* when the pass ends, the reportError call that awaits it runs to its end
DirQueueSendSettled(status) ==
    /\ Len(oq.pass) > 0
    /\ LET q == SendSettled(oq, status = 200, online)
           started == [sdk EXCEPT !.sdkMonitor = RecordRequestStart(@)]
           s == IF status = 200
                THEN [started EXCEPT !.sdkMonitor = RecordRequestSuccess(@)]
                ELSE [started EXCEPT !.sdkMonitor = RecordRequestFailure(@),
                                     !.enabled = IF status = 401 \/ status = 403
                                                 THEN FALSE ELSE @]
           over == Len(q.pass) = 0
           waiting == {i \in DirectIds : dx.calls[i].pc = "flush"}
           acked == IF status = 200 THEN dx.acked \cup {oq.pass[1].report.id}
                    ELSE dx.acked
       IN  /\ oq' = q
           /\ IF over /\ waiting # {}
              THEN LET i == CHOOSE j \in waiting : TRUE
                   IN  /\ sdk' = Continuation(s, dx.calls[i].fingerprint, FALSE, now)
                       /\ dx' = [dx EXCEPT !.calls[i] = Settled(@, FALSE),
                                           !.acked = acked]
              ELSE /\ sdk' = s
                   /\ dx' = [dx EXCEPT !.acked = acked]
    /\ UNCHANGED <<now, online, cb, beyondDirect>>

\* a follow-up timer of the offline manager fires: processQueue()
DirTimerFires ==
    /\ oq.timers > 0
    /\ LET armed == [oq EXCEPT !.timers = @ - 1]
       IN  oq' = IF ProcessQueueRuns(armed, online)
                 THEN ProcessQueueBegin(armed, online) ELSE armed
    /\ UNCHANGED <<now, online, sdk, dx, cb, beyondDirect>>

\* flushQueue()
DirFlushQueue ==
    /\ oq.timers < MaxTimers
    /\ LET runs == sdk.enableOfflineSupport /\ ProcessQueueRuns(oq, online)
       IN  oq' = IF runs THEN ProcessQueueBegin(oq, online) ELSE oq
    /\ UNCHANGED <<now, online, sdk, dx, cb, beyondDirect>>

\* the browser goes offline
DirGoOffline ==
    /\ online
    /\ dx.flips < MaxFlips
    /\ online' = FALSE
    /\ dx' = [dx EXCEPT !.flips = @ + 1]
    /\ UNCHANGED <<now, oq, sdk, cb, beyondDirect>>

\* the browser comes back online: the offline manager's listener runs processQueue()
DirGoOnline ==
    /\ ~online
    /\ oq.timers < MaxTimers
    /\ dx.flips < MaxFlips
    /\ online' = TRUE
    /\ oq' = IF ProcessQueueRuns(oq, TRUE) THEN ProcessQueueBegin(oq, TRUE) ELSE oq
    /\ dx' = [dx EXCEPT !.flips = @ + 1]
    /\ UNCHANGED <<now, sdk, cb, beyondDirect>>

\* time passes, up to the next instant
DirTick ==
    /\ \E t \in DirInstants : t > now
    /\ now' = Min({t \in DirInstants : t > now})
    /\ UNCHANGED <<online, oq, sdk, dx, cb, beyondDirect>>

(***************************************************************************)
(* SecurityValidatorService.sanitizeData.  A string is the sequence of its *)
(* characters.  A value is a record tagged "null", "number", "boolean",    *)
(* "string", "array" (v: the sequence of its items) or "object" (v: the    *)
(* sequence of its [key, value] entries in insertion order).               *)
(***************************************************************************)
MaxPieces == 3
SliceLimit == 24

UpperCase == <<"A", "B", "C", "D", "E", "F", "G", "H", "I", "J", "K", "L", "M", "N", "O", "P", "Q", "R", "S", "T", "U", "V", "W", "X", "Y", "Z">>
LowerCase == <<"a", "b", "c", "d", "e", "f", "g", "h", "i", "j", "k", "l", "m", "n", "o", "p", "q", "r", "s", "t", "u", "v", "w", "x", "y", "z">>
Digits == {"0", "1", "2", "3", "4", "5", "6", "7", "8", "9"}

\* the character as the `i` flag and toLowerCase() see it
Lower(c) ==
    IF \E k \in 1..26 : UpperCase[k] = c
    THEN LowerCase[CHOOSE k \in 1..26 : UpperCase[k] = c]
    ELSE c

\* \w
IsWordChar(c) == \/ \E k \in 1..26 : LowerCase[k] = Lower(c)
                 \/ c \in Digits
                 \/ c = "_"

\* \s, for the characters of the model
IsSpace(c) == c \in {" ", "\n"}

\* the characters `.` does not match
IsLineTerminator(c) == c = "\n"

\* str matches the lower-case pattern at position i, ignoring case
MatchesAt(str, i, pattern) ==
    /\ i + Len(pattern) - 1 <= Len(str)
    /\ \A k \in 1..Len(pattern) : Lower(str[i + k - 1]) = pattern[k]

\* where a match of /<script[^>]*>.*?<\/script>/i that begins at i ends, 0 if none
ScriptMatchEnd(str, i) ==
    LET tagEnds == {j \in (i + 7)..Len(str) : str[j] = ">"}
        tagEnd == Min(tagEnds)
        closings == {k \in (tagEnd + 1)..Len(str) :
                        MatchesAt(str, k, <<"<", "/", "s", "c", "r", "i", "p", "t", ">">>)}
        closing == Min(closings)
    IN  IF ~MatchesAt(str, i, <<"<", "s", "c", "r", "i", "p", "t">>) \/ tagEnds = {} THEN 0
        ELSE IF closings = {} THEN 0
        ELSE IF \E m \in (tagEnd + 1)..(closing - 1) : IsLineTerminator(str[m]) THEN 0
        ELSE closing + 8

\* the first position from i on that holds no word character, Len + 1 if none
SkipWord(str, i) ==
    Min({p \in i..(Len(str) + 1) : p = Len(str) + 1 \/ ~IsWordChar(str[p])})

\* the first position from i on that holds no white space, Len + 1 if none
SkipSpace(str, i) ==
    Min({p \in i..(Len(str) + 1) : p = Len(str) + 1 \/ ~IsSpace(str[p])})

\* where a match of /on\w+\s*=/i that begins at i ends, 0 if none
HandlerMatchEnd(str, i) ==
    LET afterWord == SkipWord(str, i + 2)
        afterSpace == SkipSpace(str, afterWord)
    IN  IF ~MatchesAt(str, i, <<"o", "n">>) \/ afterWord = i + 2 THEN 0
        ELSE IF afterSpace <= Len(str) /\ str[afterSpace] = "=" THEN afterSpace
        ELSE 0

\* where a match of the literal pattern that begins at i ends, 0 if none
LiteralMatchEnd(str, i, pattern) ==
    IF MatchesAt(str, i, pattern) THEN i + Len(pattern) - 1 ELSE 0

JavascriptMatchEnd(str, i) == LiteralMatchEnd(str, i, <<"j", "a", "v", "a", "s", "c", "r", "i", "p", "t", ":">>)
VbscriptMatchEnd(str, i) == LiteralMatchEnd(str, i, <<"v", "b", "s", "c", "r", "i", "p", "t", ":">>)

\* where a match of the pattern of this name that begins at i ends, 0 if none
MatchEnd(pattern, str, i) ==
    CASE pattern = "script" -> ScriptMatchEnd(str, i)
      [] pattern = "javascript" -> JavascriptMatchEnd(str, i)
      [] pattern = "vbscript" -> VbscriptMatchEnd(str, i)
      [] pattern = "handler" -> HandlerMatchEnd(str, i)

\* String.prototype.replace with a /g pattern: the matches are found from left
\* to right, without overlap, and each gives way to the replacement
RECURSIVE ReplaceFrom(_, _, _, _)
ReplaceFrom(str, i, pattern, replacement) ==
    IF i > Len(str) THEN <<>>
    ELSE LET end == MatchEnd(pattern, str, i)
         IN  IF end = 0 THEN <<str[i]>> \o ReplaceFrom(str, i + 1, pattern, replacement)
             ELSE replacement \o ReplaceFrom(str, end + 1, pattern, replacement)

\* slice(0, n)
Slice(str, n) == SubSeq(str, 1, IF Len(str) < n THEN Len(str) ELSE n)

\* sanitizeString(str); the code cuts at 10000 characters, the model at SliceLimit
SanitizeString(str) ==
    LET noScript == ReplaceFrom(str, 1, "script", <<"[", "s", "c", "r", "i", "p", "t", " ", "r", "e", "m", "o", "v", "e", "d", "]">>)
        noJavascript == ReplaceFrom(noScript, 1, "javascript",
                                    <<"j", "a", "v", "a", "s", "c", "r", "i", "p", "t", "_", "r", "e", "m", "o", "v", "e", "d", ":">>)
        noVbscript == ReplaceFrom(noJavascript, 1, "vbscript",
                                  <<"v", "b", "s", "c", "r", "i", "p", "t", "_", "r", "e", "m", "o", "v", "e", "d", ":">>)
        noHandler == ReplaceFrom(noVbscript, 1, "handler",
                                 <<"e", "v", "e", "n", "t", "_", "r", "e", "m", "o", "v", "e", "d", "=">>)
    IN  Slice(noHandler, SliceLimit)

SensitiveKeys ==
    {
       <<"p", "a", "s", "s", "w", "o", "r", "d">>,
       <<"p", "a", "s", "s", "w", "d">>,
       <<"p", "w", "d">>,
       <<"s", "e", "c", "r", "e", "t">>,
       <<"t", "o", "k", "e", "n">>,
       <<"k", "e", "y">>,
       <<"a", "p", "i", "_", "k", "e", "y">>,
       <<"a", "p", "i", "k", "e", "y">>,
       <<"a", "u", "t", "h">>,
       <<"a", "u", "t", "h", "o", "r", "i", "z", "a", "t", "i", "o", "n">>,
       <<"c", "o", "o", "k", "i", "e">>,
       <<"s", "e", "s", "s", "i", "o", "n">>,
       <<"c", "s", "r", "f">>,
       <<"s", "s", "n">>,
       <<"s", "o", "c", "i", "a", "l", "_", "s", "e", "c", "u", "r", "i", "t", "y">>,
       <<"c", "r", "e", "d", "i", "t", "_", "c", "a", "r", "d">>,
       <<"c", "a", "r", "d", "_", "n", "u", "m", "b", "e", "r">>,
       <<"c", "v", "v">>,
       <<"p", "i", "n">>
    }

\* String.prototype.includes, on the lower-cased key
IncludesTerm(str, term) == \E i \in 1..Len(str) : MatchesAt(str, i, term)

\* isSensitiveKey(key)
IsSensitiveKey(key) == \E sensitive \in SensitiveKeys : IncludesTerm(key, sensitive)

NullVal == [t |-> "null", v |-> <<>>]
NumVal == [t |-> "number", v |-> <<>>]
BoolVal == [t |-> "boolean", v |-> <<>>]
StrVal(str) == [t |-> "string", v |-> str]
ArrVal(items) == [t |-> "array", v |-> items]
ObjVal(entries) == [t |-> "object", v |-> entries]

\* sanitized[key] = value: an existing property keeps its place
SetProperty(entries, key, value) ==
    IF \E k \in 1..Len(entries) : entries[k].key = key
    THEN [k \in 1..Len(entries) |->
            IF entries[k].key = key THEN [key |-> key, value |-> value] ELSE entries[k]]
    ELSE Append(entries, [key |-> key, value |-> value])

\* sanitizeData(data)
RECURSIVE SanitizeData(_)
RECURSIVE SanitizeEntries(_, _)
SanitizeEntries(entries, sanitized) ==
    IF entries = <<>> THEN sanitized
    ELSE LET entry == Head(entries)
         IN  IF IsSensitiveKey(entry.key)
             THEN SanitizeEntries(Tail(entries), sanitized)
             ELSE SanitizeEntries(Tail(entries),
                                  SetProperty(sanitized, SanitizeString(entry.key),
                                              SanitizeData(entry.value)))

SanitizeData(data) ==
    CASE data.t = "null" -> data
      [] data.t = "string" -> StrVal(SanitizeString(data.v))
      [] data.t \in {"number", "boolean"} -> data
      [] data.t = "array" -> ArrVal([k \in 1..Len(data.v) |-> SanitizeData(data.v[k])])
      [] data.t = "object" -> ObjVal(SanitizeEntries(data.v, <<>>))

(***************************************************************************)
(* The values handed to sanitizeData: strings made of up to MaxPieces      *)
(* pieces, and objects and arrays that hold such strings as keys and       *)
(* values, two levels deep.  sv.out is sanitizeData(sv.input) and sv.again *)
(* is sanitizeData(sv.out).                                                *)
(***************************************************************************)
Pieces ==
    { <<"<", "s", "c", "r", "i", "p", "t", ">">>,
      <<"<", "/", "s", "c", "r", "i", "p", "t", ">">>,
      <<"j", "a", "v", "a", "s", "c", "r", "i", "p", "t", ":">>,
      <<"o", "n", "x">>,
      <<"O", "N", "x">>,
      <<"=">>,
      <<"\n">>,
      <<"c", "o", "o", "k", "i">>,
      <<"K", "e", "y">>,
      <<"a">> }

RECURSIVE StringsOf(_)
StringsOf(n) ==
    IF n = 0 THEN {<<>>}
    ELSE LET shorter == StringsOf(n - 1)
         IN  shorter \cup {str \o piece : str \in shorter, piece \in Pieces}

\* the values handed to sanitizeData, with strings of at most n pieces
Leaves(n) == {NullVal, NumVal, BoolVal} \cup {StrVal(str) : str \in StringsOf(n)}

FlatObjects(n) ==
    {ObjVal(<<[key |-> key, value |-> value]>>) :
        key \in StringsOf(n), value \in {NumVal, StrVal(<<"o", "n", "x", "=">>)}}

TwoKeyObjects ==
    {ObjVal(<<[key |-> first, value |-> NumVal], [key |-> second, value |-> BoolVal]>>) :
        first \in StringsOf(1), second \in StringsOf(2)}

Nested(n) ==
    {ObjVal(<<[key |-> <<"a">>, value |-> inner]>>) : inner \in FlatObjects(n)}
    \cup {ArrVal(<<inner, NumVal>>) : inner \in FlatObjects(n)}

SanitizerInputs(n) == Leaves(n) \cup FlatObjects(n) \cup TwoKeyObjects \cup Nested(n)

SVFresh(input) == [pc |-> "given", input |-> input, out |-> NullVal, again |-> NullVal]

SVIdle == sv = SVFresh(NullVal)

\* sanitizeData(input)
SVSanitize ==
    /\ sv.pc = "given"
    /\ sv' = [sv EXCEPT !.pc = "once", !.out = SanitizeData(sv.input)]
    /\ UNCHANGED <<now, beyondSanitizer>>

\* sanitizeData of what sanitizeData returned
SVSanitizeAgain ==
    /\ sv.pc = "once"
    /\ sv' = [sv EXCEPT !.pc = "twice", !.again = SanitizeData(sv.out)]
    /\ UNCHANGED <<now, beyondSanitizer>>

(***************************************************************************)
(* SecurityValidatorService.validateApiUrl and validateProjectToken, and   *)
(* the constructor of ErrorExplorerService.                                *)
(***************************************************************************)
TokenMinLength == 10
TokenMaxLength == 1000

\* the positions of this character in str
PositionsOf(str, ch) == {i \in 1..Len(str) : str[i] = ch}

IsAlpha(ch) == \E k \in 1..26 : LowerCase[k] = Lower(ch)

\* str in lower case
LowerString(str) == [i \in 1..Len(str) |-> Lower(str[i])]

\* new URL(url) of a string made of a scheme, ":", slashes and a host that ends
\* at the next "/" or ":": the protocol and the hostname in lower case; `ok` is
\* FALSE where the constructor throws (no scheme, or http/https without a host)
ParseUrl(url) ==
    LET colons == PositionsOf(url, ":")
        colon == Min(colons)
        hasScheme == /\ colons # {}
                     /\ colon > 1
                     /\ IsAlpha(url[1])
                     /\ \A k \in 2..(colon - 1) :
                            IsAlpha(url[k]) \/ url[k] \in Digits \cup {"+", "-", "."}
        protocol == LowerString(SubSeq(url, 1, colon))
        hostStart == Min({p \in (colon + 1)..(Len(url) + 1) :
                            p = Len(url) + 1 \/ url[p] # "/"})
        hostEnd == Min({p \in hostStart..(Len(url) + 1) :
                            p = Len(url) + 1 \/ url[p] \in {"/", ":"}})
        hostname == LowerString(SubSeq(url, hostStart, hostEnd - 1))
        special == protocol \in {<<"h", "t", "t", "p", ":">>, <<"h", "t", "t", "p", "s", ":">>}
    IN  IF ~hasScheme THEN [ok |-> FALSE, protocol |-> <<>>, hostname |-> <<>>]
        ELSE IF special /\ hostname = <<>>
        THEN [ok |-> FALSE, protocol |-> protocol, hostname |-> <<>>]
        ELSE [ok |-> TRUE, protocol |-> protocol, hostname |-> hostname]

\* str begins with these characters
StartsWith(str, prefix) == Len(prefix) <= Len(str) /\ SubSeq(str, 1, Len(prefix)) = prefix

\* isPrivateOrLocalhost(hostname)
IsPrivateOrLocalhost(hostname) ==
    \/ hostname \in {<<"l", "o", "c", "a", "l", "h", "o", "s", "t">>, <<"1", "2", "7", ".", "0", ".", "0", ".", "1">>, <<":", ":", "1">>}
    \/ StartsWith(hostname, <<"1", "0", ".">>)
    \/ /\ StartsWith(hostname, <<"1", "7", "2", ".">>)
       /\ Len(hostname) >= 7
       /\ hostname[7] = "."
       /\ \/ hostname[5] = "1" /\ hostname[6] \in {"6", "7", "8", "9"}
          \/ hostname[5] = "2" /\ hostname[6] \in Digits
          \/ hostname[5] = "3" /\ hostname[6] \in {"0", "1"}
    \/ StartsWith(hostname, <<"1", "9", "2", ".", "1", "6", "8", ".">>)
    \/ StartsWith(hostname, <<"1", "6", "9", ".", "2", "5", "4", ".">>)

\* validateApiUrl(url).isValid under this SecurityConfig.requireHttps
ValidateApiUrl(url, requireHttps) ==
    LET parsedUrl == ParseUrl(url)
    IN  IF url = <<>> THEN FALSE
        ELSE IF ~parsedUrl.ok THEN FALSE
        ELSE IF requireHttps /\ parsedUrl.protocol # <<"h", "t", "t", "p", "s", ":">> THEN FALSE
        ELSE IF parsedUrl.protocol \notin {<<"h", "t", "t", "p", ":">>, <<"h", "t", "t", "p", "s", ":">>} THEN FALSE
        ELSE IF requireHttps /\ IsPrivateOrLocalhost(parsedUrl.hostname) THEN FALSE
        ELSE TRUE

\* /on\w+=/i matches from position i
TokenHandlerAt(str, i) ==
    LET afterWord == SkipWord(str, i + 2)
    IN  /\ MatchesAt(str, i, <<"o", "n">>)
        /\ afterWord > i + 2
        /\ afterWord <= Len(str)
        /\ str[afterWord] = "="

\* containsSuspiciousPatterns(token)
ContainsSuspiciousPatterns(token) ==
    \E i \in 1..Len(token) :
        \/ MatchesAt(token, i, <<"<", "s", "c", "r", "i", "p", "t">>)
        \/ MatchesAt(token, i, <<"j", "a", "v", "a", "s", "c", "r", "i", "p", "t", ":">>)
        \/ MatchesAt(token, i, <<"v", "b", "s", "c", "r", "i", "p", "t", ":">>)
        \/ TokenHandlerAt(token, i)
        \/ MatchesAt(token, i, <<"e", "v", "a", "l", "(">>)
        \/ MatchesAt(token, i, <<"e", "x", "e", "c", "(">>)

\* validateProjectToken(token).isValid
ValidateProjectToken(token) ==
    IF token = <<>> THEN FALSE
    ELSE IF Len(token) < TokenMinLength THEN FALSE
    ELSE IF Len(token) > TokenMaxLength THEN FALSE
    ELSE IF ContainsSuspiciousPatterns(token) THEN FALSE
    ELSE TRUE

\* what the constructor has installed once it is over, or once it has thrown
Hooks == {"globalHandlers", "consoleOverride", "routerSubscription",
          "offlineSendFunction", "cleanupInterval"}

\* initializeServices(): the services are created and configured; the offline
\* manager's constructor listens to the online and offline events and the batch
\* manager is given its send function
InitializeServices(config) ==
    {"onlineListeners"} \cup (IF config.enableBatching THEN {"batchSendFunction"} ELSE {})

\* initialize() that sets up the global handlers before it validates
InitializeHandlersFirst(config) ==
    LET valid == /\ ValidateApiUrl(config.apiUrl, config.requireHttps)
                 /\ ValidateProjectToken(config.projectToken)
        handlers == {"globalHandlers", "consoleOverride"}
        router == IF config.hasRouter /\ config.captureRouteChanges
                  THEN {"routerSubscription"} ELSE {}
        offline == IF config.enableOfflineSupport THEN {"offlineSendFunction"} ELSE {}
    IN  IF ~config.enabled
        THEN [threw |-> FALSE, installed |-> {}, isInitialized |-> FALSE]
        ELSE IF ~valid
        THEN [threw |-> TRUE, installed |-> handlers, isInitialized |-> FALSE]
        ELSE [threw |-> FALSE,
              installed |-> handlers \cup router \cup offline \cup {"cleanupInterval"},
              isInitialized |-> TRUE]

\* initialize(): nothing when disabled; validateConfiguration() throws on an
\* invalid URL or token; then the handlers, the router tracking, the offline
\* manager's send function and the cleanup interval
Initialize(config) ==
    LET valid == /\ ValidateApiUrl(config.apiUrl, config.requireHttps)
                 /\ ValidateProjectToken(config.projectToken)
        handlers == {"globalHandlers", "consoleOverride"}
        router == IF config.hasRouter /\ config.captureRouteChanges
                  THEN {"routerSubscription"} ELSE {}
        offline == IF config.enableOfflineSupport THEN {"offlineSendFunction"} ELSE {}
    IN  IF ~config.enabled
        THEN [threw |-> FALSE, installed |-> {}, isInitialized |-> FALSE]
        ELSE IF ~valid
        THEN [threw |-> TRUE, installed |-> {}, isInitialized |-> FALSE]
        ELSE [threw |-> FALSE,
              installed |-> handlers \cup router \cup offline \cup {"cleanupInterval"},
              isInitialized |-> TRUE]

\* the values of apiUrl and projectToken the application configures
ApiUrls ==
    { <<>>,
      <<"h", "t", "t", "p", "s", ":", "/", "/", "a", ".", "i", "o">>,
      <<"h", "t", "t", "p", ":", "/", "/", "a", ".", "i", "o">>,
      <<"H", "T", "T", "P", ":", "/", "/", "l", "o", "c", "a", "l", "h", "o", "s", "t">>,
      <<"h", "t", "t", "p", "s", ":", "/", "/", "1", "0", ".", "0", ".", "0", ".", "1">>,
      <<"h", "t", "t", "p", "s", ":", "/", "/", "1", "7", "2", ".", "1", "6", ".", "0", ".", "1">>,
      <<"h", "t", "t", "p", "s", ":", "/", "/", "1", "7", "2", ".", "1", "6", "0", ".", "0", ".", "1">>,
      <<"f", "t", "p", ":", "/", "/", "a", ".", "i", "o">>,
      <<"a", ".", "i", "o">>,
      <<"h", "t", "t", "p", "s", ":", "/", "/">>,
      <<":", "/", "/", "a", ".", "i", "o">> }

ProjectTokens ==
    { <<>>,
      <<"s", "h", "o", "r", "t">>,
      <<"a", "b", "c", "d", "e", "f", "g", "h", "i">>,
      <<"a", "b", "c", "d", "e", "f", "g", "h", "i", "j">>,
      <<"<", "s", "c", "r", "i", "p", "t", ">", "a", "b">>,
      <<"<", "S", "C", "R", "I", "P", "T", " ", "a", "b">>,
      <<"j", "a", "v", "a", "s", "c", "r", "i", "p", "t", ":">>,
      <<"v", "b", "s", "c", "r", "i", "p", "t", ":", "a", "b">>,
      <<"o", "n", "c", "l", "i", "c", "k", "=", "a", "b", "c">>,
      <<"o", "n", "=", "a", "b", "c", "d", "e", "f", "g", "h">>,
      <<"O", "N", "x", "=", "a", "b", "c", "d", "e", "f", "g">>,
      <<"e", "v", "a", "l", "(", "a", "b", "c", "d", "e">>,
      <<"e", "x", "e", "c", "(", "a", "b", "c", "d", "e">>,
      <<"e", "v", "a", "l", "u", "a", "t", "i", "o", "n">> }

\* ErrorExplorerConfig merged over the constructor's defaults
Configs ==
    [enabled : BOOLEAN, apiUrl : ApiUrls, projectToken : ProjectTokens,
     requireHttps : BOOLEAN, enableOfflineSupport : BOOLEAN, enableBatching : {TRUE},
     hasRouter : BOOLEAN, captureRouteChanges : {TRUE}]

\* a configuration about to be handed to the constructor
AppGiven(config) ==
    [pc |-> "given", config |-> config, installed |-> {}, isInitialized |-> FALSE]

AppIdle ==
    app = AppGiven([enabled |-> FALSE, apiUrl |-> <<>>, projectToken |-> <<>>,
                    requireHttps |-> FALSE, enableOfflineSupport |-> FALSE,
                    enableBatching |-> TRUE, hasRouter |-> FALSE,
                    captureRouteChanges |-> TRUE])

\* new ErrorExplorerService(config, http, router)
AppConstruct ==
    /\ app.pc = "given"
    /\ LET services == InitializeServices(app.config)
           r == Initialize(app.config)
       IN  /\ app' = [app EXCEPT !.pc = IF r.threw THEN "threw" ELSE "built",
                                 !.installed = services \cup r.installed,
                                 !.isInitialized = r.isInitialized]
           /\ sdk' = [sdk EXCEPT !.enabled = app.config.enabled,
                                 !.isInitialized = r.isInitialized,
                                 !.enableOfflineSupport = app.config.enableOfflineSupport]
    /\ UNCHANGED <<now, beyondStartup>>

(***************************************************************************)
(* The service as the constructor leaves it, enabled or disabled, and the  *)
(* application switching config.enabled with updateConfig.                 *)
(***************************************************************************)
GuardCalls == 3

\* a configuration that passes validateConfiguration()
ValidConfig(enabled) ==
    [enabled |-> enabled,
     apiUrl |-> <<"h", "t", "t", "p", "s", ":", "/", "/", "a", ".", "i", "o">>,
     projectToken |-> <<"a", "b", "c", "d", "e", "f", "g", "h", "i", "j">>,
     requireHttps |-> FALSE, enableOfflineSupport |-> TRUE, enableBatching |-> TRUE,
     hasRouter |-> TRUE, captureRouteChanges |-> TRUE]

\* the service once the constructor has run on this configuration at time t
SdkBuilt(config, t) ==
    [SdkFresh(t) EXCEPT !.enabled = config.enabled,
                        !.isInitialized = Initialize(config).isInitialized,
                        !.enableOfflineSupport = config.enableOfflineSupport]

\* updateConfig({enabled})
GuardUpdateConfig(enabled) ==
    /\ sdk' = [sdk EXCEPT !.enabled = enabled]
    /\ UNCHANGED <<now, sdkx, oqVars, beyondSDK>>

(***************************************************************************)
(* A BatchManagerService on its own, with a send function.  An item is     *)
(* [id, size, at]: the order it was added in, its serialized size and the  *)
(* time it was added.  bmx.forwarded lists the batches handed to the send  *)
(* function, bmx.inflight the positions in that list of the batches whose  *)
(* send has not settled.  The timer fires when it is due: time does not    *)
(* pass a due timer.                                                       *)
(***************************************************************************)
BMaxTime == 3
MaxAdded == 3
ConfBatchSize == 3
ConfBatchTimeout == 2
ConfMaxPayloadSize == 4

ItemSizes == {1, 2}

BMShort ==
    BatchConfigured([batchSize |-> ConfBatchSize, batchTimeout |-> ConfBatchTimeout,
                     maxPayloadSize |-> ConfMaxPayloadSize])

BMXFresh == [next |-> 1, added |-> <<>>, forwarded |-> <<>>, inflight |-> {}]

BMIdle == bm = BatchFresh /\ bmx = BMXFresh

\* the send function is called with this batch, if there is one
Forwarded(x, sending, t) ==
    IF Len(sending) = 0 THEN x
    ELSE [x EXCEPT !.forwarded = Append(@, [batch |-> sending, at |-> t]),
                   !.inflight = @ \cup {Len(x.forwarded) + 1}]

\* addToBatch(error)
BMAddToBatch(size) ==
    /\ bmx.next <= MaxAdded
    /\ LET item == [id |-> bmx.next, size |-> size, at |-> now]
           r == AddToBatch(bm, item, now)
       IN  /\ bm' = r.batch
           /\ bmx' = Forwarded([bmx EXCEPT !.next = @ + 1, !.added = Append(@, item)],
                               r.sending, now)
    /\ UNCHANGED <<now, beyondBatch>>

\* flush()
BMFlush ==
    /\ LET r == Flush(bm)
       IN  /\ bm' = r.batch
           /\ bmx' = Forwarded(bmx, r.sending, now)
    /\ UNCHANGED <<now, beyondBatch>>

\* the timer armed by startBatchTimeout fires
BMTimerFires ==
    /\ Truthy(bm.batchTimeout)
    /\ now >= bm.batchTimeout
    /\ LET r == BatchTimeoutFired(bm)
       IN  /\ bm' = r.batch
           /\ bmx' = Forwarded(bmx, r.sending, now)
    /\ UNCHANGED <<now, beyondBatch>>

\* the send function's promise for the i-th batch handed over settles: sendBatch
\* updates the statistics after a success
BMSendSettled(i, ok) ==
    /\ i \in bmx.inflight
    /\ bm' = [bm EXCEPT !.totalBatches = IF ok THEN @ + 1 ELSE @]
    /\ bmx' = [bmx EXCEPT !.inflight = @ \ {i}]
    /\ UNCHANGED <<now, beyondBatch>>

\* time passes, unless the timer is due
BMTick ==
    /\ now < BMaxTime
    /\ ~(Truthy(bm.batchTimeout) /\ now >= bm.batchTimeout)
    /\ now' = now + 1
    /\ UNCHANGED <<bmVars, beyondBatch>>

(***************************************************************************)
(* ErrorExplorerService.sendBatchDirectly(errors) with CompressionService. *)
(* sbd.payload is what was POSTed: "array" (the errors) or "compressed"    *)
(* ({compressed: true, data}); sbd.gzip is the Content-Encoding header.    *)
(***************************************************************************)
CompressionThreshold == 1024
ValidatorMaxPayloadSize == 1048576
ConfThreshold == 2

\* the batches a batch manager with this configuration hands over: before its
\* last item the batch was below both thresholds
ForwardableBatches(config) ==
    LET items == [size : 1..(config.maxPayloadSize - 1)]
        seqs == UNION {[1..n -> items] : n \in 1..config.batchSize}
    IN  {batch \in seqs :
            CalculatePayloadSize(SubSeq(batch, 1, Len(batch) - 1)) < config.maxPayloadSize}

\* CompressionService.shouldCompress(data)
ShouldCompress(errors, threshold) == CalculatePayloadSize(errors) >= threshold

\* validatePayloadSize(payloadString).isValid: the compressed payload is a short
\* object whose data string sanitizeData has cut to 10000 characters
ValidatePayloadSize(payload, errors, maxPayloadSize) ==
    IF payload = "compressed" THEN TRUE
    ELSE CalculatePayloadSize(errors) <= maxPayloadSize

SBDGiven(errors, enableCompression, supported, threshold, maxPayloadSize) ==
    [pc |-> "given", errors |-> errors, enableCompression |-> enableCompression,
     supported |-> supported, threshold |-> threshold, maxPayloadSize |-> maxPayloadSize,
     compression |-> "none", payload |-> "none", gzip |-> FALSE, posted |-> FALSE,
     thrown |-> "none", monitor |-> MonitorFresh]

SBDIdle ==
    sbd = SBDGiven(<<>>, FALSE, FALSE, CompressionThreshold, ValidatorMaxPayloadSize)

\* sendBatchDirectly from the choice of the payload on: sanitizeData,
\* validatePayloadSize, then the POST
Post(run, payload) ==
    IF ~ValidatePayloadSize(payload, run.errors, run.maxPayloadSize)
    THEN [run EXCEPT !.pc = "done", !.thrown = "Batch payload validation failed",
                     !.monitor = RecordRequestFailure(@)]
    ELSE [run EXCEPT !.pc = "post", !.payload = payload, !.posted = TRUE,
                     !.gzip = (payload = "compressed")]

\* sendBatchDirectly after a rejected compress() that lets the rejection through
AfterCompressRethrowing(run, resolved) ==
    IF resolved THEN Post([run EXCEPT !.compression = "done"], "compressed")
    ELSE [run EXCEPT !.pc = "done", !.compression = "failed",
                     !.thrown = "Batch HTTP unknown",
                     !.monitor = RecordRequestFailure(@)]

\* sendBatchDirectly once compress() has settled: the compressed payload, or the
\* errors themselves after a rejection
AfterCompress(run, resolved) ==
    IF resolved THEN Post([run EXCEPT !.compression = "done"], "compressed")
    ELSE Post([run EXCEPT !.compression = "failed"], "array")

\* sendBatchDirectly(errors) up to its first await
SBDStart ==
    /\ sbd.pc = "given"
    /\ LET started == [sbd EXCEPT !.monitor = RecordRequestStart(@)]
       IN  sbd' = IF Len(sbd.errors) = 0 THEN [sbd EXCEPT !.pc = "done"]
                  ELSE IF ~sbd.enableCompression THEN Post(started, "array")
                  ELSE IF ~sbd.supported
                  THEN Post([started EXCEPT !.compression = "unsupported"], "array")
                  ELSE IF ~ShouldCompress(sbd.errors, sbd.threshold)
                  THEN Post(started, "array")
                  ELSE [started EXCEPT !.pc = "compress", !.compression = "pending"]
    /\ UNCHANGED <<now, beyondSend>>

\* compress() settles
SBDCompressSettled(resolved) ==
    /\ sbd.pc = "compress"
    /\ sbd' = AfterCompress(sbd, resolved)
    /\ UNCHANGED <<now, beyondSend>>

\* the transport answers the POST
SBDResponse(status) ==
    /\ sbd.pc = "post"
    /\ sbd' = IF status = 200
              THEN [sbd EXCEPT !.pc = "done", !.monitor = RecordRequestSuccess(@)]
              ELSE [sbd EXCEPT !.pc = "done", !.monitor = RecordRequestFailure(@),
                               !.thrown = IF status = 401 \/ status = 403
                                          THEN "Authentication failed - SDK disabled"
                                          ELSE "Batch HTTP"]
    /\ UNCHANGED <<now, beyondSend>>

(***************************************************************************)
(* BreadcrumbManager.  A breadcrumb is [message, timestamp].               *)
(***************************************************************************)
MaxBreadcrumbsDefault == 50
MaxCapacity == 3
MaxCrumbs == 5

\* new BreadcrumbManager(maxBreadcrumbs)
BreadcrumbsFresh(maxBreadcrumbs) == [breadcrumbs |-> <<>>, maxBreadcrumbs |-> maxBreadcrumbs]

\* addBreadcrumb(breadcrumb) that drops the entry it has just pushed
AddBreadcrumbDroppingNewest(r, message, t) ==
    LET pushed == Append(r.breadcrumbs, [message |-> message, timestamp |-> t])
    IN  [r EXCEPT !.breadcrumbs = IF Len(pushed) > r.maxBreadcrumbs
                                  THEN SubSeq(pushed, 1, Len(pushed) - 1) ELSE pushed]

\* addBreadcrumb(breadcrumb)
AddBreadcrumb(r, message, t) ==
    LET pushed == Append(r.breadcrumbs, [message |-> message, timestamp |-> t])
    IN  [r EXCEPT !.breadcrumbs = IF Len(pushed) > r.maxBreadcrumbs
                                  THEN Tail(pushed) ELSE pushed]

\* getBreadcrumbs()
GetBreadcrumbs(r) == r.breadcrumbs

\* clear()
Clear(r) == [r EXCEPT !.breadcrumbs = <<>>]

Messages == {"a", "b"}

\* since: the breadcrumbs added since the last clear; got: what the last
\* getBreadcrumbs() returned, and what had been added by then
RingFresh(maxBreadcrumbs) ==
    [mgr |-> BreadcrumbsFresh(maxBreadcrumbs), adds |-> 0, since |-> <<>>,
     got |-> <<>>, gotSince |-> <<>>, cleared |-> FALSE]

RingIdle == ring = RingFresh(MaxBreadcrumbsDefault)

\* addBreadcrumb({message}); the timestamp is the number of the call
RingAddBreadcrumb(message) ==
    /\ ring.adds < MaxCrumbs
    /\ LET t == ring.adds + 1
       IN  ring' = [ring EXCEPT
                      !.mgr = AddBreadcrumb(@, message, t),
                      !.adds = t,
                      !.since = Append(@, [message |-> message, timestamp |-> t])]
    /\ UNCHANGED <<now, beyondRing>>

\* getBreadcrumbs()
RingGetBreadcrumbs ==
    /\ ring' = [ring EXCEPT !.got = GetBreadcrumbs(ring.mgr), !.gotSince = ring.since]
    /\ UNCHANGED <<now, beyondRing>>

\* clear()
RingClear ==
    /\ ring' = [ring EXCEPT !.mgr = Clear(@), !.since = <<>>, !.cleared = TRUE]
    /\ UNCHANGED <<now, beyondRing>>

(***************************************************************************)
(* RateLimiterService.createErrorFingerprint.  Strings are sequences of    *)
(* characters; an error is [name, message, stack].                         *)
(***************************************************************************)
SignatureDepth == 3
MessageSignatureLength == 100

\* the characters of code 32 to 126, in order; the places of the backslash and
\* of the backquote, which no string here holds, are left empty
Ascii == <<" ", "!", "\"", "#", "$", "%", "&", "'", "(", ")", "*", "+", ",", "-", ".", "/", "0", "1", "2", "3", "4", "5", "6", "7", "8", "9", ":", ";", "<", "=", ">", "?", "@", "A", "B", "C", "D", "E", "F", "G", "H", "I", "J", "K", "L", "M", "N", "O", "P", "Q", "R", "S", "T", "U", "V", "W", "X", "Y", "Z", "[", "", "]", "^", "_", "", "a", "b", "c", "d", "e", "f", "g", "h", "i", "j", "k", "l", "m", "n", "o", "p", "q", "r", "s", "t", "u", "v", "w", "x", "y", "z", "{", "|", "}", "~">>

\* the code of each of these characters, and of the line feed
CharCodes ==
    [c \in {Ascii[k] : k \in 1..Len(Ascii)} \cup {"\n"} |->
        IF c = "\n" THEN 10 ELSE 31 + CHOOSE k \in 1..Len(Ascii) : Ascii[k] = c]

\* charCodeAt
CharCode(c) == CharCodes[c]

\* String.prototype.includes
Has(str, part) ==
    \E i \in 1..(Len(str) - Len(part) + 1) :
        str[i] = part[1] /\ SubSeq(str, i, i + Len(part) - 1) = part

\* String.prototype.split on one character
RECURSIVE Split(_, _)
Split(str, sep) ==
    IF PositionsOf(str, sep) = {} THEN <<str>>
    ELSE LET at == Min(PositionsOf(str, sep))
         IN  <<SubSeq(str, 1, at - 1)>> \o Split(SubSeq(str, at + 1, Len(str)), sep)

\* Array.prototype.join
RECURSIVE Join(_, _)
Join(parts, sep) ==
    IF parts = <<>> THEN <<>>
    ELSE IF Len(parts) = 1 THEN parts[1]
    ELSE parts[1] \o sep \o Join(Tail(parts), sep)

WhiteSpace == {" ", "\t", "\n", "\r"}

\* String.prototype.trim
Trim(str) ==
    LET inked == {i \in 1..Len(str) : str[i] \notin WhiteSpace}
    IN  IF inked = {} THEN <<>>
        ELSE SubSeq(str, Min(inked), CHOOSE i \in inked : \A j \in inked : j <= i)

\* where the run of digits that begins at i ends; i - 1 if str[i] is no digit
RECURSIVE DigitsEnd(_, _)
DigitsEnd(str, i) ==
    IF i <= Len(str) /\ str[i] \in Digits THEN DigitsEnd(str, i + 1) ELSE i - 1

\* where a match of /:\d+/ that begins at i ends, 0 if none
LineMatchEnd(str, i) ==
    IF str[i] = ":" /\ DigitsEnd(str, i + 1) > i THEN DigitsEnd(str, i + 1) ELSE 0

\* where a match of /:\d+:\d+/ that begins at i ends, 0 if none
LineColumnMatchEnd(str, i) ==
    LET line == LineMatchEnd(str, i)
    IN  IF line > 0 /\ line < Len(str) THEN LineMatchEnd(str, line + 1) ELSE 0

\* frame.replace(/:\d+:\d+/g, ':XX:XX')
RECURSIVE ReplaceLineColumn(_, _)
ReplaceLineColumn(str, i) ==
    IF i > Len(str) THEN <<>>
    ELSE LET end == LineColumnMatchEnd(str, i)
         IN  IF end = 0 THEN <<str[i]>> \o ReplaceLineColumn(str, i + 1)
             ELSE <<":", "X", "X", ":", "X", "X">> \o ReplaceLineColumn(str, end + 1)

\* frame.replace(/:\d+/g, ':XX')
RECURSIVE ReplaceLine(_, _)
ReplaceLine(str, i) ==
    IF i > Len(str) THEN <<>>
    ELSE LET end == LineMatchEnd(str, i)
         IN  IF end = 0 THEN <<str[i]>> \o ReplaceLine(str, i + 1)
             ELSE <<":", "X", "X">> \o ReplaceLine(str, end + 1)

\* the filter of extractStackSignature
MeaningfulFrame(line) ==
    LET trimmed == Trim(line)
    IN  /\ trimmed # <<>>
        /\ Has(trimmed, <<"a", "t", " ">>)
        /\ ~Has(trimmed, <<"c", "h", "r", "o", "m", "e", "-", "e", "x", "t", "e", "n", "s", "i", "o", "n", ":", "/", "/">>)
        /\ ~Has(trimmed, <<"w", "e", "b", "p", "a", "c", "k", ":", "/", "/">>)
        /\ ~Has(trimmed, <<"n", "o", "d", "e", "_", "m", "o", "d", "u", "l", "e", "s", "/", "@", "a", "n", "g", "u", "l", "a", "r">>)
        /\ \/ Has(trimmed, <<".", "t", "s">>)
           \/ Has(trimmed, <<".", "j", "s">>)
           \/ Has(trimmed, <<".", "c", "o", "m", "p", "o", "n", "e", "n", "t">>)

\* extractStackSignature(stackTrace, depth)
ExtractStackSignature(stackTrace, depth) ==
    IF stackTrace = <<>> THEN <<>>
    ELSE LET lines == Split(stackTrace, "\n")
             meaningfulFrames == SelectSeq(lines, MeaningfulFrame)
             frames == Slice(meaningfulFrames, depth)
             normalizedFrames ==
                 [k \in 1..Len(frames) |-> ReplaceLine(ReplaceLineColumn(frames[k], 1), 1)]
         IN  Join(normalizedFrames, <<"|">>)

\* A 32-bit integer is kept as its two 16-bit halves, [hi, lo].
Half == 65536

\* hash << 5
ShiftLeft5(h) ==
    [lo |-> (h.lo * 32) % Half, hi |-> (h.hi * 32 + (h.lo * 32) \div Half) % Half]

\* a - b, to 32 bits
Minus32(a, b) ==
    LET borrow == IF a.lo < b.lo THEN 1 ELSE 0
    IN  [lo |-> (a.lo - b.lo + Half) % Half, hi |-> (a.hi - b.hi - borrow + Half) % Half]

\* a + char, to 32 bits
Plus32(a, char) ==
    [lo |-> (a.lo + char) % Half, hi |-> (a.hi + (a.lo + char) \div Half) % Half]

\* Math.abs of the signed 32-bit integer, as an unsigned one
Abs32(h) == IF h.hi >= Half \div 2 THEN Minus32([hi |-> 0, lo |-> 0], h) ELSE h

\* the loop of createErrorFingerprint over the characters from..to, in order,
\* run as its first half and then its second half; between the two the hash is
\* a 32-bit integer
RECURSIVE HashOver(_, _, _, _)
HashOver(combined, from, to, hash) ==
    IF from > to THEN hash
    ELSE IF from = to
    THEN Plus32(Minus32(ShiftLeft5(hash), hash), CharCode(combined[from]))
    ELSE LET middle == (from + to) \div 2
             half == HashOver(combined, from, middle, hash)
         IN  CASE half.hi < Half /\ half.lo < Half ->
                      HashOver(combined, middle + 1, to, half)

DigitChars == <<"0", "1", "2", "3", "4", "5", "6", "7", "8", "9">>

\* Number.prototype.toString(36) of an unsigned 32-bit integer
RECURSIVE ToString36(_)
ToString36(n) ==
    LET mid == (n.hi % 36) * Half + n.lo
        quotient == [hi |-> n.hi \div 36, lo |-> mid \div 36]
        digit == (DigitChars \o LowerCase)[(mid % 36) + 1]
    IN  IF quotient.hi = 0 /\ quotient.lo = 0 THEN <<digit>>
        ELSE Append(ToString36(quotient), digit)

\* createErrorFingerprint(error, additionalData) hashing the whole message
CreateErrorFingerprintOfWholeMessage(error, additionalData) ==
    LET stackSignature == ExtractStackSignature(error.stack, SignatureDepth)
        messageSignature == error.message
        errorType == error.name
        combined == stackSignature \o <<"|">> \o messageSignature \o <<"|">> \o errorType
        hash == HashOver(combined, 1, Len(combined), [hi |-> 0, lo |-> 0])
    IN  Slice(ToString36(Abs32(hash)), 32)

\* createErrorFingerprint(error, additionalData)
CreateErrorFingerprint(error, additionalData) ==
    LET stackSignature == ExtractStackSignature(error.stack, SignatureDepth)
        messageSignature == Slice(error.message, MessageSignatureLength)
        errorType == error.name
        combined == stackSignature \o <<"|">> \o messageSignature \o <<"|">> \o errorType
        hash == HashOver(combined, 1, Len(combined), [hi |-> 0, lo |-> 0])
    IN  Slice(ToString36(Abs32(hash)), 32)

\* The stack frames that errors are built from: two that differ in their line and
\* column numbers only, one with a line number only, one of a bundler.
FrameHere == <<" ", " ", " ", " ", "a", "t", " ", "f", " ", "(", "a", ".", "t", "s", ":", "1", ":", "2", ")">>
FrameThere == <<" ", " ", " ", " ", "a", "t", " ", "f", " ", "(", "a", ".", "t", "s", ":", "3", "0", ":", "4", ")">>
FrameLineOnly == <<" ", " ", " ", " ", "a", "t", " ", "g", " ", "(", "b", ".", "j", "s", ":", "7", ")">>
FrameWebpack == <<" ", " ", " ", " ", "a", "t", " ", "h", " ", "(", "w", "e", "b", "p", "a", "c", "k", ":", "/", "/", "w", ".", "t", "s", ":", "1", ":", "1", ")">>

RECURSIVE FrameLists(_, _)
FrameLists(frames, n) ==
    IF n = 0 THEN {<<>>}
    ELSE FrameLists(frames, n - 1)
         \cup {Append(list, frame) : list \in FrameLists(frames, n - 1), frame \in frames}

\* error.stack: the heading, then one line for each frame
StackOf(list) == Join(<<<<"E", "r", "r", "o", "r", ":", " ", "m">>>> \o list, <<"\n">>)

Repeated(ch, n) == [i \in 1..n |-> ch]

\* a short message, and two that differ after their first 100 characters only
ErrorMessages ==
    {<<"T", "e", "s", "t", " ", "e", "r", "r", "o", "r">>,
     Repeated("m", MessageSignatureLength) \o <<"x">>,
     Repeated("m", MessageSignatureLength) \o <<"y">>}

ErrorNames == {<<"E", "r", "r", "o", "r">>, <<"T", "y", "p", "e", "E", "r", "r", "o", "r">>}

\* the errors with no stack or with a stack of these numbers of these frames
ErrorsOf(frames, lengths) ==
    LET most == CHOOSE n \in lengths : \A k \in lengths : k <= n
    IN  [name : ErrorNames, message : ErrorMessages,
         stack : {StackOf(list) : list \in {l \in FrameLists(frames, most) : Len(l) \in lengths}}
                 \cup {<<>>}]

\* errors whose frames carry the same numbers throughout: no stack, or as many
\* frames as the signature takes
FirstErrors ==
    {error \in ErrorsOf({FrameHere, FrameLineOnly}, {SignatureDepth}) :
        /\ error.name = <<"E", "r", "r", "o", "r">>
        /\ error.message[Len(error.message)] # "y"}

\* errors of up to one frame more than the signature takes
SecondErrors ==
    ErrorsOf({FrameHere, FrameThere, FrameLineOnly, FrameWebpack}, 0..(SignatureDepth + 1))

NoError == [name |-> <<>>, message |-> <<>>, stack |-> <<>>]

\* additionalData is the sequence of its keys
FprFresh ==
    [calls |-> 0, first |-> NoError, second |-> NoError, additionalData |-> <<>>,
     fingerprint1 |-> <<>>, fingerprint2 |-> <<>>]

FprIdle == fpr = FprFresh

\* createErrorFingerprint(error) for a first error
FprFirst(error) ==
    /\ fpr.calls = 0
    /\ fpr' = [fpr EXCEPT !.calls = 1, !.first = error,
                          !.fingerprint1 = CreateErrorFingerprint(error, <<>>)]
    /\ UNCHANGED <<now, beyondFpr>>

\* createErrorFingerprint(error, additionalData) for a second error
FprSecond(error, additionalData) ==
    /\ fpr.calls = 1
    /\ fpr' = [fpr EXCEPT !.calls = 2, !.second = error,
                          !.additionalData = additionalData,
                          !.fingerprint2 = CreateErrorFingerprint(error, additionalData)]
    /\ UNCHANGED <<now, beyondFpr>>

(***************************************************************************)
(* The compressed batch on the wire.  compress() returns the base64 text   *)
(* of the bytes the browser's CompressionStream produced; sendBatchDirectly *)
(* wraps it, sanitizes the wrapper and posts it; decompress() starts with  *)
(* atob.  A byte is a number in 0..255.                                    *)
(***************************************************************************)
MaxWireErrors == 2
MaxCodecBytes == 4

Base64Alphabet == UpperCase \o LowerCase \o DigitChars \o <<"+", "/">>

\* btoa of the binary string of these bytes
RECURSIVE Btoa(_)
Btoa(bytes) ==
    IF bytes = <<>> THEN <<>>
    ELSE IF Len(bytes) = 1
    THEN LET n == bytes[1] * 16
         IN  <<Base64Alphabet[(n \div 64) + 1], Base64Alphabet[(n % 64) + 1], "=", "=">>
    ELSE IF Len(bytes) = 2
    THEN LET n == (bytes[1] * 256 + bytes[2]) * 4
         IN  <<Base64Alphabet[(n \div 4096) + 1], Base64Alphabet[((n \div 64) % 64) + 1],
               Base64Alphabet[(n % 64) + 1], "=">>
    ELSE LET n == bytes[1] * 65536 + bytes[2] * 256 + bytes[3]
         IN  <<Base64Alphabet[(n \div 262144) + 1],
               Base64Alphabet[((n \div 4096) % 64) + 1],
               Base64Alphabet[((n \div 64) % 64) + 1],
               Base64Alphabet[(n % 64) + 1]>> \o Btoa(SubSeq(bytes, 4, Len(bytes)))

\* arrayBufferToBase64(buffer)
ArrayBufferToBase64(bytes) == Btoa(bytes)

\* the number a base64 character stands for
SextetOf(c) == (CHOOSE k \in 1..Len(Base64Alphabet) : Base64Alphabet[k] = c) - 1

\* the bytes of base64 characters without padding
RECURSIVE DecodeSextets(_)
DecodeSextets(str) ==
    IF Len(str) < 2 THEN <<>>
    ELSE IF Len(str) = 2
    THEN <<(SextetOf(str[1]) * 64 + SextetOf(str[2])) \div 16>>
    ELSE IF Len(str) = 3
    THEN LET n == (SextetOf(str[1]) * 4096 + SextetOf(str[2]) * 64 + SextetOf(str[3])) \div 4
         IN  <<n \div 256, n % 256>>
    ELSE LET n == SextetOf(str[1]) * 262144 + SextetOf(str[2]) * 4096
                  + SextetOf(str[3]) * 64 + SextetOf(str[4])
         IN  <<n \div 65536, (n \div 256) % 256, n % 256>>
             \o DecodeSextets(SubSeq(str, 5, Len(str)))

NotWhiteSpace(c) == c \notin WhiteSpace

\* atob(base64): white space is skipped, one or two "=" end a text whose length
\* is a multiple of four, and any other character makes it throw (ok is FALSE)
Atob(base64) ==
    LET text == SelectSeq(base64, NotWhiteSpace)
        pads == IF Len(text) % 4 = 0 /\ Len(text) > 0 /\ text[Len(text)] = "="
                THEN IF text[Len(text) - 1] = "=" THEN 2 ELSE 1
                ELSE 0
        str == SubSeq(text, 1, Len(text) - pads)
    IN  IF Len(str) % 4 = 1 \/ \E k \in 1..Len(str) :
                                   \A j \in 1..Len(Base64Alphabet) : Base64Alphabet[j] # str[k]
        THEN [ok |-> FALSE, bytes |-> <<>>]
        ELSE [ok |-> TRUE, bytes |-> DecodeSextets(str)]

\* base64ToArrayBuffer(base64)
Base64ToArrayBuffer(base64) == Atob(base64)

\* { compressed: true, data: compressedData }
CompressedPayload(compressedData) ==
    ObjVal(<<[key |-> <<"c", "o", "m", "p", "r", "e", "s", "s", "e", "d">>, value |-> BoolVal],
             [key |-> <<"d", "a", "t", "a">>, value |-> StrVal(compressedData)]>>)

\* body.data, <<>> if the body has no such string
DataOf(body) ==
    LET found == {k \in 1..Len(body.v) : body.v[k].key = <<"d", "a", "t", "a">>}
    IN  IF found = {} THEN <<>> ELSE body.v[CHOOSE k \in found : TRUE].value.v

\* the bytes a CompressionStream may produce: up to MaxCodecBytes of these
\* values, after nothing or after as many bytes as fill the sanitizer's limit
CodecBytes == {0, 112, 162}

CodecOutputs(n) ==
    LET tails == UNION {[1..k -> CodecBytes] : k \in 0..n}
    IN  tails \cup {Repeated(0, (SliceLimit \div 4) * 3) \o tail : tail \in tails}

WireGiven(count, bytes) ==
    [pc |-> "given", count |-> count, bytes |-> bytes, data |-> <<>>, body |-> NullVal,
     batchSize |-> 0, decoded |-> [ok |-> FALSE, bytes |-> <<>>]]

WireIdle == wire = WireGiven(0, <<>>)

\* sendBatchDirectly(errors), compression having succeeded: the wrapper is
\* sanitized and posted with the X-Batch-Size header
WireSend ==
    /\ wire.pc = "given"
    /\ LET compressedData == ArrayBufferToBase64(wire.bytes)
       IN  wire' = [wire EXCEPT !.pc = "sent",
                                !.data = compressedData,
                                !.body = SanitizeData(CompressedPayload(compressedData)),
                                !.batchSize = wire.count]
    /\ UNCHANGED <<now, beyondWire>>

\* decompress(body.data) up to the bytes handed to the DecompressionStream
WireDecode ==
    /\ wire.pc = "sent"
    /\ wire' = [wire EXCEPT !.pc = "decoded",
                            !.decoded = Base64ToArrayBuffer(DataOf(wire.body))]
    /\ UNCHANGED <<now, beyondWire>>

(***************************************************************************)
(* Specifications                                                          *)
(***************************************************************************)
(***************************************************************************)
(* One reportError call, call by call.  sub.calls lists the calls the last *)
(* reportError made on the rate limiter, the breadcrumb manager, the quota *)
(* manager, the batch manager or sendReport, and the monitor, in the order *)
(* of the code; sub.context is the breadcrumbs its createErrorContext      *)
(* read; sub.outcome is what became of it.                                 *)
(***************************************************************************)
SubCalls == 3         \* reportError calls in one behaviour
SubCrumbs == 2        \* breadcrumbs added in one behaviour

SubFresh(enableBatching, t) ==
    [enableBatching |-> enableBatching, rateLimiter |-> RLFresh,
     quotaManager |-> QuotaFresh(t),
     breadcrumbManager |-> BreadcrumbsFresh(MaxBreadcrumbsDefault),
     sdkMonitor |-> MonitorFresh, made |-> 0, added |-> 0, pending |-> Null,
     calls |-> <<>>, context |-> <<>>, outcome |-> "none"]

SubIdle == sub = SubFresh(TRUE, 1)

\* reportError(error) up to its return or its await of sendReport; f is the
\* fingerprint createErrorFingerprint gives the error and size the length of
\* the serialized report
SubReportErrorCall(s, f, size, t) ==
    LET canMakeRequest == CanMakeRequest(s.rateLimiter, t)
        canReportError == CanReportError(canMakeRequest.rl, f, t)
        limited == [s EXCEPT !.rateLimiter = canMakeRequest.rl,
                             !.calls = <<"createErrorFingerprint", "canMakeRequest",
                                         "canReportError">>,
                             !.context = <<>>]
        errorContext == GetBreadcrumbs(s.breadcrumbManager)
        quotaCheck == CanSendError(s.quotaManager, size, t)
        built == [limited EXCEPT !.calls = @ \o <<"getBreadcrumbs", "canSendError">>,
                                 !.context = errorContext,
                                 !.quotaManager = quotaCheck.quota]
    IN  IF ~canMakeRequest.ok \/ ~canReportError
        THEN [limited EXCEPT !.sdkMonitor = RecordErrorDropped(@),
                             !.calls = Append(@, "recordErrorDropped"),
                             !.outcome = "rate_limit"]
        ELSE IF ~quotaCheck.allowed
        THEN [built EXCEPT !.sdkMonitor = RecordErrorDropped(@),
                           !.calls = Append(@, "recordErrorDropped"),
                           !.outcome = "quota"]
        ELSE IF s.enableBatching
        THEN [built EXCEPT !.quotaManager = QuotaRecordErrorSent(@, t),
                           !.sdkMonitor = RecordErrorReported(@),
                           !.rateLimiter = RecordRequest(@, f, t),
                           !.calls = @ \o <<"addToBatch", "recordErrorSent",
                                            "recordErrorReported", "recordRequest">>,
                           !.outcome = "handed"]
        ELSE [built EXCEPT !.calls = Append(@, "sendReport"), !.pending = f,
                           !.outcome = "handed"]

\* reportError after the awaited sendReport: it resolved, or it rejected
\* (the send failed and offline support is disabled)
SubAfterSendReport(s, resolved, t) ==
    IF resolved
    THEN [s EXCEPT !.quotaManager = QuotaRecordErrorSent(@, t),
                   !.sdkMonitor = RecordErrorReported(@),
                   !.rateLimiter = RecordRequest(@, s.pending, t),
                   !.calls = @ \o <<"recordErrorSent", "recordErrorReported",
                                    "recordRequest">>,
                   !.pending = Null]
    ELSE [s EXCEPT !.sdkMonitor = RecordErrorDropped(@),
                   !.calls = Append(@, "recordErrorDropped"),
                   !.pending = Null]

\* reportError(error): the error is one of the fingerprints, its report is of
\* ordinary size or over the payload size limit
SubReportError(f, size) ==
    /\ sub.made < SubCalls
    /\ sub.pending = Null
    /\ sub' = [SubReportErrorCall(sub, f, size, now) EXCEPT !.made = @ + 1]
    /\ UNCHANGED <<now, beyondSub>>

\* the awaited sendReport settled
SubSendReportSettled(resolved) ==
    /\ sub.pending # Null
    /\ sub' = SubAfterSendReport(sub, resolved, now)
    /\ UNCHANGED <<now, beyondSub>>

\* addBreadcrumb(message)
SubAddBreadcrumb(message) ==
    /\ sub.added < SubCrumbs
    /\ sub' = [sub EXCEPT !.breadcrumbManager = AddBreadcrumb(@, message, now),
                          !.added = @ + 1]
    /\ UNCHANGED <<now, beyondSub>>

\* time passes, up to the next instant
SubTick ==
    /\ \E t \in Instants : t > now
    /\ now' = Min({t \in Instants : t > now})
    /\ UNCHANGED <<sub, beyondSub>>

(***************************************************************************)
(* SDKMonitorService with its map of active requests.  A request id is a   *)
(* number: generateRequestId joins Date.now() and nine random characters,  *)
(* so every call gets an id of its own.  mon.runs[i] is the i-th call of   *)
(* sendReportDirectly or sendBatchDirectly: where it is suspended or how   *)
(* it ended ("invalid": on the failed size validation), the id            *)
(* recordRequestStart gave it, and whether reset() was called since;       *)
(* mon.started counts the recordRequestStart calls since the last reset(), *)
(* mon.counted[id] how often request id was added to requestsSuccessful    *)
(* or requestsFailed.                                                      *)
(***************************************************************************)
MonRuns == 3          \* sends in one behaviour

RequestIds == 1..MonRuns

MonitorWithRequests ==
    [requests |-> {}, requestsSuccessful |-> 0, requestsFailed |-> 0]

\* recordRequestStart() giving the request the id
MonitorRequestStart(m, id) == [m EXCEPT !.requests = @ \cup {id}]

\* recordRequestSuccess(requestId, payloadSize)
MonitorRequestSuccess(m, requestId) ==
    IF requestId \notin m.requests THEN m
    ELSE [m EXCEPT !.requestsSuccessful = @ + 1, !.requests = @ \ {requestId}]

\* recordRequestFailure(requestId, error) that does not look the request up
MonitorRequestFailureUnchecked(m, requestId) ==
    [m EXCEPT !.requestsFailed = @ + 1, !.requests = @ \ {requestId}]

\* recordRequestFailure(requestId, error)
MonitorRequestFailure(m, requestId) ==
    IF requestId \notin m.requests THEN m
    ELSE [m EXCEPT !.requestsFailed = @ + 1, !.requests = @ \ {requestId}]

\* reset()
MonitorReset(m) == MonitorWithRequests

IdleRun == [pc |-> "idle", kind |-> "none", id |-> 0, current |-> FALSE]

MonFresh ==
    [monitor |-> MonitorWithRequests, nextId |-> 1, started |-> 0,
     runs |-> [i \in RequestIds |-> IdleRun],
     counted |-> [id \in RequestIds |-> 0]]

MonIdle == mon = MonFresh

\* what the monitor added to its counters for request id between m and n
Counting(m, n, id, counted) ==
    LET added == (n.requestsSuccessful - m.requestsSuccessful)
                  + (n.requestsFailed - m.requestsFailed)
    IN  [counted EXCEPT ![id] = @ + added]

\* the send got its request id from recordRequestStart()
Started(x, i, kind, pc) ==
    [x EXCEPT !.monitor = MonitorRequestStart(@, x.nextId),
              !.nextId = @ + 1,
              !.started = @ + 1,
              !.runs[i] = [pc |-> pc, kind |-> kind, id |-> x.nextId, current |-> TRUE]]

\* the payload failed validatePayloadSize: recordRequestFailure, the throw, and
\* recordRequestFailure again in the catch block
ValidationFailed(x, i) ==
    LET id == x.runs[i].id
        first == MonitorRequestFailure(x.monitor, id)
        second == MonitorRequestFailure(first, id)
    IN  [x EXCEPT !.monitor = second,
                  !.counted = Counting(x.monitor, second, id, @),
                  !.runs[i].pc = "invalid"]

\* the send from validatePayloadSize on: the validation fails or the POST is made
Validated(x, i, isValid) ==
    IF isValid THEN [x EXCEPT !.runs[i].pc = "post"] ELSE ValidationFailed(x, i)

\* sendReportDirectly(report) up to its await of the POST
MonSendReportDirectly(i, isValid) ==
    /\ mon.runs[i].pc = "idle"
    /\ mon' = Validated(Started(mon, i, "report", "start"), i, isValid)
    /\ UNCHANGED <<now, beyondMon>>

\* sendBatchDirectly(errors) up to its first await: nothing for an empty batch,
\* else the compression or the POST
MonSendBatchDirectly(i, isEmpty, compresses, isValid) ==
    /\ mon.runs[i].pc = "idle"
    /\ mon' = IF isEmpty
              THEN [mon EXCEPT !.runs[i] = [IdleRun EXCEPT !.pc = "done", !.kind = "batch"]]
              ELSE IF compresses THEN Started(mon, i, "batch", "compress")
              ELSE Validated(Started(mon, i, "batch", "start"), i, isValid)
    /\ UNCHANGED <<now, beyondMon>>

\* compress() settled, either way: sendBatchDirectly goes on to the validation
MonCompressSettled(i, isValid) ==
    /\ mon.runs[i].pc = "compress"
    /\ mon' = Validated(mon, i, isValid)
    /\ UNCHANGED <<now, beyondMon>>

\* the transport answered the POST
MonResponse(i, status) ==
    /\ mon.runs[i].pc = "post"
    /\ LET id == mon.runs[i].id
           after == IF status = 200 THEN MonitorRequestSuccess(mon.monitor, id)
                    ELSE MonitorRequestFailure(mon.monitor, id)
       IN  mon' = [mon EXCEPT !.monitor = after,
                              !.counted = Counting(mon.monitor, after, id, @),
                              !.runs[i].pc = "done"]
    /\ UNCHANGED <<now, beyondMon>>

\* reset(), with whatever sends are in flight
MonReset ==
    /\ mon.started > 0
    /\ mon' = [mon EXCEPT !.monitor = MonitorReset(@), !.started = 0,
                          !.runs = [i \in RequestIds |-> [@[i] EXCEPT !.current = FALSE]]]
    /\ UNCHANGED <<now, beyondMon>>

LastIdle == WireIdle /\ SubIdle /\ MonIdle

LaterIdle == RingIdle /\ FprIdle /\ LastIdle

PartsIdle == AppIdle /\ BMIdle /\ SBDIdle /\ LaterIdle

UnitsIdle == RLIdle /\ QuotaIdle /\ SVIdle /\ DirIdle /\ PartsIdle

CBInit ==
    /\ now = 1
    /\ CBIdle
    /\ RTIdle
    /\ OQIdle
    /\ SdkIdle
    /\ UnitsIdle

CBNext ==
    \/ \E i \in CallIds : CBExecute(i)
    \/ \E i \in CallIds : CBOpSuccess(i)
    \/ \E i \in CallIds : CBOpFailure(i)
    \/ CBReset
    \/ CBForceOpen
    \/ CBForceClose
    \/ CBIsCircuitOpen
    \/ CBTick

SpecCB == CBInit /\ [][CBNext]_vars

RTInit ==
    /\ now = 1
    /\ CBIdle
    /\ RTIdle
    /\ OQIdle
    /\ SdkIdle
    /\ UnitsIdle

RTNext ==
    \/ \E m \in 0..MaxRetriesDefault : RTStart(m)
    \/ RTOpResolve
    \/ \E failure \in OpFailures : RTOpReject(failure)
    \/ RTDelayElapsed
    \/ RTAgain

SpecRetry == RTInit /\ [][RTNext]_vars

\* the offline manager right after initialization, with or without localStorage
OQInit ==
    /\ now = 1
    /\ CBIdle
    /\ RTIdle
    /\ online \in BOOLEAN
    /\ oq \in {OQFresh(TRUE), OQFresh(FALSE)}
    /\ oqx = OQXFresh
    /\ SdkIdle
    /\ UnitsIdle

OQNext ==
    \/ OQQueueReport
    \/ OQProcessQueue
    \/ OQTimerFires
    \/ OQSendSuccess
    \/ OQSendFailure
    \/ OQGoOffline
    \/ OQGoOnline
    \/ OQClearQueue
    \/ OQTick

SpecOffline == OQInit /\ [][OQNext]_vars

\* the offline queue over page reloads
DurableNext ==
    \/ OQNext
    \/ OQRestart

SpecDurable == OQInit /\ [][DurableNext]_vars

\* an instance constructed over a store that holds DrainReports records (the
\* constructor's loadQueue), configured with room for them, with or without a
\* send function
OQLoaded(hasSend) ==
    LET loaded == [i \in 1..DrainReports |-> QueuedReport(i, 1)]
    IN  [OQFresh(TRUE) EXCEPT !.queue = loaded, !.store = Stringify(loaded),
                              !.maxQueueSize = DrainReports, !.hasSend = hasSend]

DrainInit ==
    /\ now = 1
    /\ CBIdle
    /\ RTIdle
    /\ online \in BOOLEAN
    /\ oq \in {OQLoaded(TRUE), OQLoaded(FALSE)}
    /\ oqx = [next |-> DrainReports + 1, handed |-> [r \in 1..DrainReports |-> 0],
              back |-> <<>>, restarts |-> 0, last |-> OQEvent("none", 0, FALSE)]
    /\ SdkIdle
    /\ UnitsIdle

DrainNext ==
    \/ OQProcessQueue
    \/ OQTimerFires
    \/ OQSendSuccess
    \/ OQSendFailure
    \/ OQGoOffline
    \/ OQGoOnline

SpecDrain == DrainInit /\ [][DrainNext]_vars

\* the pipeline right after construction with the default configuration, the
\* browser online or offline
PipeInit ==
    /\ now = Min(Instants)
    /\ CBIdle
    /\ RTIdle
    /\ online \in BOOLEAN
    /\ oq = OQDefault
    /\ oqx = OQXFresh
    /\ sdk = SdkFresh(now)
    /\ sdkx = SdkXFresh(online)
    /\ UnitsIdle

PipeNext ==
    \/ \E f \in Fingerprints : PipeReportError(f, MaxSubmissions)
    \/ PipeBatchTimer
    \/ PipeFlushBatch
    \/ \E i \in 1..MaxInFlight : PipeCompressed(i)
    \/ \E i \in 1..MaxInFlight, status \in BatchStatuses : PipeBatchResponse(i, status)
    \/ PipeFlushQueue
    \/ PipeGoOffline
    \/ PipeGoOnline
    \/ PipeCleanup
    \/ PipeTick

SpecPipe == PipeInit /\ [][PipeNext]_vars

\* the loop of the README's demonstrateRateLimiting: one error reported
\* BurstCalls times, while timers fire, the transport answers, the browser goes
\* offline and online and time passes
BurstCalls == 10

BurstNext ==
    \/ PipeReportError(1, BurstCalls)
    \/ PipeBatchTimer
    \/ PipeFlushBatch
    \/ \E i \in 1..MaxInFlight : PipeCompressed(i)
    \/ \E i \in 1..MaxInFlight, status \in BatchStatuses : PipeBatchResponse(i, status)
    \/ PipeFlushQueue
    \/ PipeGoOffline
    \/ PipeGoOnline
    \/ PipeCleanup
    \/ PipeTick

SpecBurst == PipeInit /\ [][BurstNext]_vars

\* the rate limiter on its own
RLInit ==
    /\ now = 1
    /\ CBIdle
    /\ RTIdle
    /\ OQIdle
    /\ SdkIdle
    /\ rateLimiter = RLShort
    /\ rlx = RLXFresh
    /\ QuotaIdle
    /\ SVIdle
    /\ DirIdle
    /\ PartsIdle

RLNext ==
    \/ \E f \in RLFingerprints \cup {Null} : RLRecordRequest(f)
    \/ RLCanMakeRequest
    \/ \E f \in RLFingerprints : RLCanReportError(f)
    \/ RLGetRemainingRequests
    \/ RLCleanup
    \/ RLTick

SpecRL == RLInit /\ [][RLNext]_vars

\* the quota manager on its own, constructed at the first instant
QuotaInit ==
    /\ now = Min(QuotaInstants)
    /\ CBIdle
    /\ RTIdle
    /\ OQIdle
    /\ SdkIdle
    /\ RLIdle
    /\ SVIdle
    /\ DirIdle
    /\ PartsIdle
    /\ \E loaded \in LoadedStates(now) :
          /\ quota = QuotaConfigured(loaded, QuotaShort, now)
          /\ qx = QXFresh(quota)

QuotaNext ==
    \/ \E size \in PayloadSizes : QCanSendError(size)
    \/ QRecordErrorSent
    \/ QGetUsageStats
    \/ QGetRemainingQuota
    \/ QTick

SpecQuota == QuotaInit /\ [][QuotaNext]_vars

\* sanitizeData applied to a value, and to its own result
SanitizerInit ==
    /\ now = 1
    /\ CBIdle
    /\ RTIdle
    /\ OQIdle
    /\ SdkIdle
    /\ RLIdle
    /\ QuotaIdle
    /\ DirIdle
    /\ PartsIdle
    /\ sv \in {SVFresh(input) : input \in SanitizerInputs(MaxPieces)}

SanitizerNext ==
    \/ SVSanitize
    \/ SVSanitizeAgain

SpecSanitizer == SanitizerInit /\ [][SanitizerNext]_vars

\* the service without batching, with and without offline support
DirInit ==
    /\ now = Min(DirInstants)
    /\ cb = CBFresh
    /\ cbx = CBXFresh
    /\ RTIdle
    /\ online \in BOOLEAN
    /\ \E offlineSupport \in BOOLEAN :
          /\ oq = OQDirect(offlineSupport)
          /\ sdk = SdkDirect(now, offlineSupport)
    /\ oqx = OQXFresh
    /\ sdkx = SdkXFresh(TRUE)
    /\ RLIdle
    /\ QuotaIdle
    /\ SVIdle
    /\ dx = DirXFresh
    /\ PartsIdle

DirNext ==
    \/ \E f \in Fingerprints : DirReportError(f)
    \/ \E i \in DirectIds : DirResume(i)
    \/ \E i \in DirectIds : DirPosted(i)
    \/ \E i \in DirectIds, status \in DirStatuses : DirPostFailed(i, status)
    \/ \E i \in DirectIds : DirDelayElapsed(i)
    \/ \E status \in DirStatuses : DirQueueSendSettled(status)
    \/ DirTimerFires
    \/ DirFlushQueue
    \/ DirGoOffline
    \/ DirGoOnline
    \/ DirTick

SpecDirect == DirInit /\ [][DirNext]_vars

\* the constructor, for every configuration of Configs
StartupInit ==
    /\ now = 1
    /\ CBIdle
    /\ RTIdle
    /\ OQIdle
    /\ sdk = [SdkFresh(1) EXCEPT !.enabled = FALSE, !.isInitialized = FALSE]
    /\ sdkx = SdkXFresh(TRUE)
    /\ RLIdle
    /\ QuotaIdle
    /\ SVIdle
    /\ DirIdle
    /\ BMIdle
    /\ SBDIdle
    /\ LaterIdle
    /\ \E config \in Configs : app = AppGiven(config)

StartupNext == AppConstruct

SpecStartup == StartupInit /\ [][StartupNext]_vars

\* the service constructed enabled or disabled, under the default configuration
GuardInit ==
    /\ now = Min(Instants)
    /\ CBIdle
    /\ RTIdle
    /\ online = TRUE
    /\ oq = OQDefault
    /\ oqx = OQXFresh
    /\ \E enabled \in BOOLEAN : sdk = SdkBuilt(ValidConfig(enabled), now)
    /\ sdkx = SdkXFresh(TRUE)
    /\ UnitsIdle

GuardNext ==
    \/ \E f \in Fingerprints : PipeReportError(f, GuardCalls)
    \/ PipeBatchTimer
    \/ PipeFlushBatch
    \/ \E i \in 1..MaxInFlight : PipeCompressed(i)
    \/ \E i \in 1..MaxInFlight, status \in BatchStatuses : PipeBatchResponse(i, status)
    \/ \E enabled \in BOOLEAN : GuardUpdateConfig(enabled)
    \/ PipeTick

SpecGuard == GuardInit /\ [][GuardNext]_vars

\* the batch manager on its own
BatchInit ==
    /\ now = 1
    /\ CBIdle
    /\ RTIdle
    /\ OQIdle
    /\ SdkIdle
    /\ RLIdle
    /\ QuotaIdle
    /\ SVIdle
    /\ DirIdle
    /\ AppIdle
    /\ SBDIdle
    /\ LaterIdle
    /\ bm = BMShort
    /\ bmx = BMXFresh

BatchNext ==
    \/ \E size \in ItemSizes : BMAddToBatch(size)
    \/ BMFlush
    \/ BMTimerFires
    \/ \E i \in 1..MaxAdded, ok \in BOOLEAN : BMSendSettled(i, ok)
    \/ BMTick

SpecBatch == BatchInit /\ [][BatchNext]_vars

\* a batch handed over by the batch manager, sent with or without compression
SendInit ==
    /\ now = 1
    /\ CBIdle
    /\ RTIdle
    /\ OQIdle
    /\ SdkIdle
    /\ RLIdle
    /\ QuotaIdle
    /\ SVIdle
    /\ DirIdle
    /\ AppIdle
    /\ BMIdle
    /\ LaterIdle
    /\ \E errors \in ForwardableBatches(BMShort.config),
          enableCompression \in BOOLEAN, supported \in BOOLEAN :
            sbd = SBDGiven(errors, enableCompression, supported, ConfThreshold,
                           ConfMaxPayloadSize)

SendNext ==
    \/ SBDStart
    \/ \E resolved \in BOOLEAN : SBDCompressSettled(resolved)
    \/ \E status \in BatchStatuses : SBDResponse(status)

SpecSend == SendInit /\ [][SendNext]_vars

\* a breadcrumb manager of any capacity up to MaxCapacity
RingInit ==
    /\ now = 1
    /\ CBIdle
    /\ RTIdle
    /\ OQIdle
    /\ SdkIdle
    /\ RLIdle
    /\ QuotaIdle
    /\ SVIdle
    /\ DirIdle
    /\ AppIdle
    /\ BMIdle
    /\ SBDIdle
    /\ FprIdle
    /\ LastIdle
    /\ \E maxBreadcrumbs \in 0..MaxCapacity : ring = RingFresh(maxBreadcrumbs)

RingNext ==
    \/ \E message \in Messages : RingAddBreadcrumb(message)
    \/ RingGetBreadcrumbs
    \/ RingClear

SpecRing == RingInit /\ [][RingNext]_vars

\* two calls of createErrorFingerprint: the first for an error whose frames carry
\* the same numbers throughout, the second for any error
FingerprintInit ==
    /\ now = 1
    /\ CBIdle
    /\ RTIdle
    /\ OQIdle
    /\ SdkIdle
    /\ RLIdle
    /\ QuotaIdle
    /\ SVIdle
    /\ DirIdle
    /\ AppIdle
    /\ BMIdle
    /\ SBDIdle
    /\ RingIdle
    /\ LastIdle
    /\ fpr = FprFresh

FingerprintNext ==
    \/ \E error \in FirstErrors : FprFirst(error)
    \/ \E error \in SecondErrors : FprSecond(error, <<"user">>)

SpecFingerprint == FingerprintInit /\ [][FingerprintNext]_vars

\* one compressed batch of up to MaxWireErrors reports
WireInit ==
    /\ now = 1
    /\ CBIdle
    /\ RTIdle
    /\ OQIdle
    /\ SdkIdle
    /\ RLIdle
    /\ QuotaIdle
    /\ SVIdle
    /\ DirIdle
    /\ AppIdle
    /\ BMIdle
    /\ SBDIdle
    /\ RingIdle
    /\ FprIdle
    /\ SubIdle
    /\ MonIdle
    /\ \E count \in 1..MaxWireErrors, bytes \in CodecOutputs(MaxCodecBytes) :
          wire = WireGiven(count, bytes)

WireNext ==
    \/ WireSend
    \/ WireDecode

SpecWire == WireInit /\ [][WireNext]_vars

\* a service with batching enabled or disabled, right after construction
SubInit ==
    /\ now = Min(Instants)
    /\ CBIdle
    /\ RTIdle
    /\ OQIdle
    /\ SdkIdle
    /\ RLIdle
    /\ QuotaIdle
    /\ SVIdle
    /\ DirIdle
    /\ AppIdle
    /\ BMIdle
    /\ SBDIdle
    /\ RingIdle
    /\ FprIdle
    /\ WireIdle
    /\ MonIdle
    /\ \E enableBatching \in BOOLEAN : sub = SubFresh(enableBatching, now)

SubNext ==
    \/ \E f \in Fingerprints, size \in PayloadSizes : SubReportError(f, size)
    \/ \E resolved \in BOOLEAN : SubSendReportSettled(resolved)
    \/ \E message \in Messages : SubAddBreadcrumb(message)
    \/ SubTick

SpecSubmission == SubInit /\ [][SubNext]_vars

\* a monitor right after construction
MonInit ==
    /\ now = 1
    /\ CBIdle
    /\ RTIdle
    /\ OQIdle
    /\ SdkIdle
    /\ RLIdle
    /\ QuotaIdle
    /\ SVIdle
    /\ DirIdle
    /\ AppIdle
    /\ BMIdle
    /\ SBDIdle
    /\ RingIdle
    /\ FprIdle
    /\ WireIdle
    /\ SubIdle
    /\ mon = MonFresh

MonNext ==
    \/ \E i \in RequestIds, isValid \in BOOLEAN : MonSendReportDirectly(i, isValid)
    \/ \E i \in RequestIds, isEmpty \in BOOLEAN, compresses \in BOOLEAN, isValid \in BOOLEAN :
          MonSendBatchDirectly(i, isEmpty, compresses, isValid)
    \/ \E i \in RequestIds, isValid \in BOOLEAN : MonCompressSettled(i, isValid)
    \/ \E i \in RequestIds, status \in {200, 503} : MonResponse(i, status)
    \/ MonReset

SpecMonitor == MonInit /\ [][MonNext]_vars

(***************************************************************************)
(* Circuit breaker claims                                                  *)
(***************************************************************************)

\* C3: right after the failure that completes a run of failureThreshold
\* consecutive failed execute calls the state is OPEN, and every execute issued
\* less than timeout after that trip (the breaker not reset meanwhile) is
\* rejected: its operation is not invoked and the call is over.
C3_TripsAndRejects ==
    /\ (cbx.last.kind = "failure" /\ cbx.failStreak >= CBFailureThreshold)
          => (cb.state = "OPEN" /\ cb.nextRetryTime = now + CBTimeout)
    /\ (cbx.last.kind \in {"admit", "reject"} /\ cbx.tripAt # Null
          /\ now < cbx.tripAt + CBTimeout)
          => (cbx.last.kind = "reject" /\ ~cbx.last.invoked
              /\ cbx.calls[cbx.last.call].pc = "idle" /\ cb.state = "OPEN")

\* C3 witness: an execute was rejected inside the timeout window of a trip caused
\* by failureThreshold consecutive failures
C3_Witness ==
    /\ cbx.last.kind = "reject"
    /\ cbx.failStreak >= CBFailureThreshold
    /\ cbx.tripAt # Null /\ now < cbx.tripAt + CBTimeout /\ now > cbx.tripAt

\* C4: an execute issued when the breaker is OPEN and its timeout has elapsed is
\* admitted, the state is HALF_OPEN while that trial call runs, and when the
\* trial call succeeds the breaker is CLOSED with failureCount, successCount,
\* lastFailureTime and nextRetryTime back at their initial values (in runs
\* where reset, forceOpen and forceClose are never issued).
C4_TrialSuccessCloses ==
    /\ (cbx.last.kind \in {"admit", "reject"} /\ cbx.last.due)
          => (cbx.last.kind = "admit" /\ cbx.last.admittedIn = "HALF_OPEN")
    /\ \A i \in CallIds :
          (cbx.pure /\ cbx.calls[i].pc = "running" /\ cbx.calls[i].trial)
              => cb.state = "HALF_OPEN"
    /\ (cbx.pure /\ cbx.last.kind = "success" /\ cbx.last.trial) => cb = CBFresh

\* C5: when a call made in HALF_OPEN fails, the state is OPEN and nextRetryTime
\* is the time of that failure plus timeout (in runs where reset, forceOpen and
\* forceClose are never issued).
C5_TrialFailureReopens ==
    (cbx.pure /\ cbx.last.kind = "failure" /\ cbx.last.admittedIn = "HALF_OPEN")
        => (cb.state = "OPEN" /\ cb.nextRetryTime = now + CBTimeout)

\* C6: at most one call admitted in HALF_OPEN is in flight, and an execute issued
\* while the trial call is in flight is rejected without invoking its operation
\* (in runs where reset, forceOpen and forceClose are never issued).
C6_OneTrialCall ==
    /\ cbx.pure => Cardinality({i \in CallIds : cbx.calls[i].pc = "running"
                                    /\ cbx.calls[i].admittedIn = "HALF_OPEN"}) <= 1
    /\ (cbx.pure /\ cbx.last.kind \in {"admit", "reject"}
          /\ \E j \in CallIds \ {cbx.last.call} :
                cbx.calls[j].pc = "running" /\ cbx.calls[j].trial)
          => (cbx.last.kind = "reject" /\ ~cbx.last.invoked)


\* C39: whatever execute calls are in flight and however their outcomes,
\* reset, forceOpen, forceClose and the queries interleave, an OPEN or
\* HALF_OPEN breaker has its nextRetryTime set, a CLOSED breaker has fewer
\* than failureThreshold failures counted, and the breaker goes from OPEN
\* to HALF_OPEN only when now >= nextRetryTime.
C39_BreakerStateInvariant ==
    [][/\ cb'.state \in {"OPEN", "HALF_OPEN"} => Truthy(cb'.nextRetryTime)
       /\ cb'.state = "CLOSED" => cb'.failureCount < CBFailureThreshold
       /\ (cb.state = "OPEN" /\ cb'.state = "HALF_OPEN") =>
             Truthy(cb.nextRetryTime) /\ now >= cb.nextRetryTime]_vars

\* the breaker is HALF_OPEN, its nextRetryTime due, after a forceOpen or a
\* trip, while a call is in flight
C39_Witness ==
    /\ cb.state = "HALF_OPEN"
    /\ Truthy(cb.nextRetryTime)
    /\ now >= cb.nextRetryTime
    /\ cb.failureCount >= CBFailureThreshold

(***************************************************************************)
(* Retry manager claims                                                    *)
(***************************************************************************)
LastOutcome == rt.outcomes[Len(rt.outcomes)]

\* the failure classes the specification calls retryable
RetryableStatus(st) == st = 429 \/ st = 408 \/ st = 0 \/ st >= 500

\* C7: for a transport failure surfaced through sendReportDirectly, with attempts
\* remaining, executeWithRetry goes on to another attempt if and only if the
\* failure is a 429, a 408, a network failure (no status) or a 5xx; so a 401 or
\* 403 is attempted once, and 400, 404, 413 are not retried.
C7_RetryByFailureClass ==
    (/\ rt.pc \in {"delaying", "thrown"}
     /\ Len(rt.outcomes) >= 1
     /\ Len(rt.outcomes) < rt.maxRetries
     /\ LastOutcome.via = "sendReportDirectly")
        => (rt.pc = "delaying" <=> RetryableStatus(LastOutcome.status))

Is503(o) == o.via = "sendReportDirectly" /\ o.status = 503

\* C8 as claimed: with maxRetries = 3, after the operation failed with 503 three
\* times executeWithRetry has not given up, and when the operation then
\* succeeds it returns after 4 invocations and 3 delays.
C8_ThreeRetriesThenSuccess ==
    (/\ rt.maxRetries = MaxRetriesDefault
     /\ Len(rt.outcomes) >= 3
     /\ \A k \in 1..3 : Is503(rt.outcomes[k]))
        => /\ rt.pc # "thrown"
           /\ rt.pc = "returned" => (rt.invocations = 4 /\ rt.delays = 3)

\* C8 amended: with maxRetries = 3, an operation that fails with 503 is retried
\* after the first and after the second failure; when it fails twice and then
\* succeeds, executeWithRetry returns after 3 invocations and 2 delays; when it
\* fails a third time executeWithRetry throws that third error, after 3
\* invocations and 2 delays.
C8_TwoRetriesThenSuccess ==
    rt.maxRetries = MaxRetriesDefault =>
        /\ (Len(rt.outcomes) \in {1, 2} /\ \A k \in 1..Len(rt.outcomes) : Is503(rt.outcomes[k]))
              => rt.pc \in {"delaying", "calling"}
        /\ (/\ Len(rt.outcomes) = 3
            /\ Is503(rt.outcomes[1]) /\ Is503(rt.outcomes[2])
            /\ rt.outcomes[3] = OpOk)
              => (rt.pc = "returned" /\ rt.invocations = 3 /\ rt.delays = 2)
        /\ (Len(rt.outcomes) = 3 /\ \A k \in 1..3 : Is503(rt.outcomes[k]))
              => (rt.pc = "thrown" /\ rt.invocations = 3 /\ rt.delays = 2
                  /\ rt.thrown = rt.raised[3] /\ rt.thrown.attempt = 3)

\* C8 witness: 503, 503, success under the default configuration
C8_Witness ==
    /\ rt.maxRetries = MaxRetriesDefault
    /\ rt.pc = "returned"
    /\ Len(rt.outcomes) = 3
    /\ Is503(rt.outcomes[1]) /\ Is503(rt.outcomes[2])

\* an error of one of the classes the retry manager retries
ManagerRetryable(msg) ==
    \/ \E ph \in {"Rate limit exceeded by server", "Request timeout", "Network error",
                   "Failed to fetch"} : Includes(msg, ph)
    \/ \E i \in HttpMatches(msg) :
          i = Min(HttpMatches(msg))
          /\ (msg[i + 1].val >= 500 \/ msg[i + 1].val = 429 \/ msg[i + 1].val = 408)

\* C9: the operation is invoked at most maxRetries times; a delay is awaited
\* after every failed attempt that is followed by another and never after the
\* last; when executeWithRetry throws after at least one attempt it throws the
\* error of the last attempt; and when every attempt failed with a retryable
\* error the operation was invoked exactly maxRetries times.
C9_AttemptsAndFinalError ==
    /\ rt.invocations <= rt.maxRetries
    /\ rt.pc \in {"calling", "returned", "thrown"} /\ rt.invocations >= 1
          => rt.delays = rt.invocations - 1
    /\ rt.pc = "delaying" => (rt.delays = rt.invocations /\ rt.invocations < rt.maxRetries)
    /\ rt.pc = "thrown" /\ rt.invocations >= 1
          => /\ Len(rt.raised) = rt.invocations
             /\ rt.thrown.attempt = rt.invocations
             /\ rt.thrown.msg = LastOutcome.msg
    /\ (rt.pc = "thrown" /\ \A k \in 1..Len(rt.raised) : ManagerRetryable(rt.raised[k].msg))
          => rt.invocations = rt.maxRetries

\* C9 witness: every attempt failed with a retryable error, the errors differ,
\* and executeWithRetry threw after maxRetries invocations
C9_Witness ==
    /\ rt.pc = "thrown"
    /\ rt.maxRetries = MaxRetriesDefault
    /\ rt.invocations = rt.maxRetries
    /\ \A k \in 1..Len(rt.raised) : ManagerRetryable(rt.raised[k].msg)
    /\ rt.raised[1].msg # rt.raised[3].msg
    /\ rt.thrown = rt.raised[3]

(***************************************************************************)
(* Offline queue claims                                                    *)
(***************************************************************************)
\* C10: in every reachable state the offline queue holds at most maxQueueSize
\* records, also while queueReport interleaves with a processQueue pass that
\* puts failed records back.
C10_QueueWithinCap == Len(oq.queue) <= oq.maxQueueSize

\* the records of report r in the queue and in the running pass
QueuedRecords(r) == {k \in 1..Len(oq.queue) : oq.queue[k].report = r}
PassRecords(r) == {k \in 1..Len(oq.pass) : oq.pass[k].report = r}

BatchSendFails(i) ==
    /\ i \in 1..Len(sdkx.inflight)
    /\ sdkx.inflight[i].pc = "post"
    /\ sdkx'.inflight = SubSeq(sdkx.inflight, 1, i - 1)
                          \o SubSeq(sdkx.inflight, i + 1, Len(sdkx.inflight))
    /\ sdk'.sdkMonitor.requestsFailed = sdk.sdkMonitor.requestsFailed + 1

\* C19: with offline support enabled, when the transmission of admitted
\* reports fails, each of them is in the offline queue afterwards.
C19_FailedReportsQueued ==
    [][\A i \in 1..MaxInFlight :
          BatchSendFails(i) /\ sdk.enableOfflineSupport =>
              \A k \in 1..Len(sdkx.inflight[i].batch) :
                  \E j \in 1..Len(oq'.queue) :
                      oq'.queue[j].report = sdkx.inflight[i].batch[k]]_vars

\* C20: a send failure whose reports are not put in the offline queue is
\* recorded as exactly one recordErrorDropped.
C20_UnqueuedFailureDropped ==
    [][\A i \in 1..MaxInFlight :
          BatchSendFails(i) /\ oq'.queue = oq.queue =>
              sdk'.sdkMonitor.errorsDropped = sdk.sdkMonitor.errorsDropped + 1]_vars

\* the steps that call processQueue()
ProcessQueueCalls == {"processQueue", "timer", "online"}

RECURSIVE HandedUpTo(_, _)
HandedUpTo(handed, n) == IF n = 0 THEN 0 ELSE handed[n] + HandedUpTo(handed, n - 1)

\* how many times a record was handed to the send function so far
HandedTotal(handed) == HandedUpTo(handed, Len(handed))

\* C33: processQueue is mutually exclusive and bounded: a call made while a
\* pass is running, while offline or with no send function leaves the queue
\* and the running pass as they are and hands nothing to the send function;
\* a pass holds at most 5 records and hands them over one at a time, the
\* next one only when the awaited send of the one before has settled.
C33_OnePassOfFive ==
    [][/\ (/\ oqx'.last.kind \in ProcessQueueCalls
           /\ (oq.isProcessing \/ ~online' \/ ~oq.hasSend))
          => /\ oq'.queue = oq.queue
             /\ oq'.pass = oq.pass
             /\ oq'.store = oq.store
             /\ oq'.isProcessing = oq.isProcessing
             /\ oqx'.handed = oqx.handed
       /\ Len(oq'.pass) <= ProcessBatchSize
       /\ oq'.isProcessing <=> Len(oq'.pass) > 0
       /\ Len(oq.pass) > 0 => oq'.pass \in {oq.pass, Tail(oq.pass)}
       /\ HandedTotal(oqx'.handed) <= HandedTotal(oqx.handed) + 1
       /\ HandedTotal(oqx'.handed) = HandedTotal(oqx.handed) + 1
          => Len(oq'.pass) > 0 /\ oqx'.handed[oq'.pass[1].report] = oqx.handed[oq'.pass[1].report] + 1
      ]_vars

\* a call returned at the guard while the fifth record of a pass was awaited
\* and a sixth record was waiting in the queue
C33_Witness ==
    /\ oqx.last.kind \in ProcessQueueCalls
    /\ ~oqx.last.ran
    /\ oq.isProcessing
    /\ Len(oq.pass) = 1
    /\ HandedTotal(oqx.handed) = ProcessBatchSize
    /\ Len(oq.queue) > 0

\* the reports of the first n records of a queue
FrontReports(queue, n) == [i \in 1..n |-> queue[i].report]

\* C34: when a pass ends, the records it has put back are at the front of
\* the queue, ahead of every other record, in the order the pass took them
\* from the queue.
C34_PutBackInOrder ==
    [][Len(oq.pass) > 0 /\ Len(oq'.pass) = 0 =>
          /\ Len(oq'.queue) >= Len(oqx'.back)
          /\ FrontReports(oq'.queue, Len(oqx'.back)) = oqx'.back]_vars

\* what the code keeps of it: the records put back are at the front of the
\* queue, the one that failed last first
C34_PutBackReversed ==
    [][Len(oq.pass) > 0 /\ Len(oq'.pass) = 0 =>
          /\ Len(oq'.queue) >= Len(oqx'.back)
          /\ \A i \in 1..Len(oqx'.back) :
                oq'.queue[i].report = oqx'.back[Len(oqx'.back) + 1 - i]]_vars

\* the step hands a record to the send function
HandsRecord == HandedTotal(oqx'.handed) = HandedTotal(oqx.handed) + 1

\* C35: processQueue never hands a record older than maxAge to the send
\* function.
C35_NoStaleRecordSent ==
    [][HandsRecord => oq'.pass[1].timestamp > now' - oq'.maxAge]_vars

\* the step constructs a new instance while no pass is in flight
ReloadsAtRest == oqx'.restarts = oqx.restarts + 1 /\ ~oq.isProcessing

\* C38: whenever no pass is in flight the store holds the queue, record by
\* record with its attempts, so an instance constructed then has exactly
\* the records of that queue that are younger than maxAge; without a store
\* nothing is stored and a new instance starts empty.
C38_StoreMirrorsQueue ==
    [][/\ (~oq'.isProcessing /\ oq'.hasStore) => Parse(oq'.store) = oq'.queue
       /\ ~oq'.hasStore => oq'.store = <<>>
       /\ ReloadsAtRest =>
             oq'.queue = IF oq.hasStore THEN CleanupQueue(oq, now).queue ELSE <<>>]_vars

\* what holds of the code: whenever no pass is in flight the store holds the
\* queue, and an instance constructed then has all its records, whatever
\* their age, unless it is older than the constructor's 24 hours
C38_StoreMirrorsQueueUnswept ==
    [][/\ (~oq'.isProcessing /\ oq'.hasStore) => Parse(oq'.store) = oq'.queue
       /\ ~oq'.hasStore => oq'.store = <<>>
       /\ ReloadsAtRest =>
             oq'.queue = IF oq.hasStore
                         THEN CleanupQueue([oq EXCEPT !.maxAge = DayMs], now).queue
                         ELSE <<>>]_vars

(***************************************************************************)
(* Rate limiter claims                                                     *)
(***************************************************************************)

\* when recordRequest(f) was last called, Null if never
LastRecorded(f) ==
    LET times == {rlx.log[k].timestamp :
                    k \in {j \in 1..Len(rlx.log) : rlx.log[j].fingerprint = f}}
    IN  IF times = {} THEN Null ELSE CHOOSE t \in times : \A u \in times : u <= t

\* C12 as stated: canReportError(f) is true for a fingerprint never recorded,
\* false while less than duplicateErrorWindow has passed since the last
\* recordRequest(f), and true from the moment duplicateErrorWindow has passed.
C12_TrueOnceWindowElapsed ==
    \A f \in Fingerprints :
        rlx.last.kind = "canReportError" /\ rlx.last.fingerprint = f =>
            rlx.last.result =
                (\/ LastRecorded(f) = Null
                 \/ now - LastRecorded(f) >= rateLimiter.config.duplicateErrorWindow)

\* C12: canReportError(f) is true for a fingerprint never recorded, false
\* while at most duplicateErrorWindow has passed since the last
\* recordRequest(f), and true once more than duplicateErrorWindow has passed;
\* exactly at duplicateErrorWindow it is true only if cleanup() has run at
\* that instant.
C12_TrueAfterWindow ==
    \A f \in Fingerprints :
        rlx.last.kind = "canReportError" /\ rlx.last.fingerprint = f =>
            LET t0 == LastRecorded(f)
                window == rateLimiter.config.duplicateErrorWindow
            IN  rlx.last.result =
                    (\/ t0 = Null
                     \/ now - t0 > window
                     \/ now - t0 = window /\ rlx.swept)

\* canReportError(f) is asked exactly duplicateErrorWindow after recordRequest(f)
C12_Witness ==
    \E f \in Fingerprints :
        /\ rlx.last = RLEvent("canReportError", f, FALSE, 0)
        /\ LastRecorded(f) # Null
        /\ now - LastRecorded(f) = rateLimiter.config.duplicateErrorWindow

\* the recordRequest calls made less than windowMs ago
CallsInWindow ==
    {k \in 1..Len(rlx.log) : now - rlx.log[k].timestamp < rateLimiter.config.windowMs}

\* C13: canMakeRequest() is true exactly when fewer than maxRequests
\* recordRequest calls were made within the last windowMs, whatever cleanup or
\* other queries happened in between: it is false after maxRequests calls in
\* the window and true again when enough of them have aged out.
C13_SlidingWindow ==
    rlx.last.kind = "canMakeRequest" =>
        rlx.last.result = (Cardinality(CallsInWindow) < rateLimiter.config.maxRequests)

\* canMakeRequest() answers true again after maxRequests calls have aged out
C13_Witness ==
    /\ rlx.last = RLEvent("canMakeRequest", Null, TRUE, 0)
    /\ Len(rlx.log) >= rateLimiter.config.maxRequests
    /\ Cardinality(CallsInWindow) < Len(rlx.log)
    /\ CallsInWindow # {}

\* what the three queries answer at instant t
ReadsOf(rl, t) ==
    [canMakeRequest |-> CanMakeRequest(rl, t).ok,
     canReportError |-> [f \in Fingerprints |-> CanReportError(rl, f, t)],
     getRemainingRequests |-> GetRemainingRequests(rl, t).remaining]

\* C36: cleanup() is idempotent and invisible to reads: a second cleanup at
\* the same instant changes nothing, and canMakeRequest, canReportError(f)
\* and getRemainingRequests answer the same, now and at every later instant,
\* whether or not cleanup() is called now.
C36_CleanupInvisible ==
    LET swept == Cleanup(rateLimiter, now)
    IN  /\ Cleanup(swept, now) = swept
        /\ \A t \in now..RLMaxTime : ReadsOf(swept, t) = ReadsOf(rateLimiter, t)

\* what holds of the code: cleanup() is idempotent and changes no answer of
\* canMakeRequest and getRemainingRequests, and none of canReportError(f)
\* except exactly duplicateErrorWindow after recordRequest(f)
C36_CleanupInvisibleOffBoundary ==
    LET swept == Cleanup(rateLimiter, now)
    IN  /\ Cleanup(swept, now) = swept
        /\ \A t \in now..RLMaxTime :
              /\ ReadsOf(swept, t).canMakeRequest = ReadsOf(rateLimiter, t).canMakeRequest
              /\ ReadsOf(swept, t).getRemainingRequests = ReadsOf(rateLimiter, t).getRemainingRequests
              /\ \A f \in Fingerprints :
                    \/ CanReportError(swept, f, t) = CanReportError(rateLimiter, f, t)
                    \/ /\ t = now
                       /\ now - rateLimiter.errorFingerprints[f] = rateLimiter.config.duplicateErrorWindow

(***************************************************************************)
(* Quota manager claims                                                    *)
(***************************************************************************)

\* the limits in the order of the claim, each with whether the present
\* counters (or the size asked about) violate it
LimitsInOrder(size) ==
    << [reason |-> "Burst limit exceeded",
        violated |-> quota.burst.used >= quota.config.burstLimit],
       [reason |-> "Daily limit exceeded",
        violated |-> quota.daily.used >= quota.config.dailyLimit],
       [reason |-> "Monthly limit exceeded",
        violated |-> quota.monthly.used >= quota.config.monthlyLimit],
       [reason |-> "Payload size limit exceeded",
        violated |-> size > quota.config.payloadSizeLimit] >>

FirstViolated(size) ==
    LET limits == LimitsInOrder(size)
        hit == {k \in 1..Len(limits) : limits[k].violated}
    IN  IF hit = {} THEN "none" ELSE limits[Min(hit)].reason

\* the recordErrorSent calls made in the present burst window
SentInBurstWindow ==
    {k \in 1..Len(qx.sent) :
        qx.sent[k] >= quota.burst.resetTime - quota.config.burstWindowMs}

\* C15: canSendError refuses exactly when a limit is violated and names the
\* first violated one in the order burst, daily, monthly, payload size; once
\* burstLimit recordErrorSent calls were made in the present burst window it
\* refuses with 'Burst limit exceeded'.
C15_FirstViolatedLimit ==
    qx.last.kind = "canSendError" =>
        /\ qx.last.reason = FirstViolated(qx.last.size)
        /\ qx.last.allowed = (FirstViolated(qx.last.size) = "none")
        /\ Cardinality(SentInBurstWindow) >= quota.config.burstLimit =>
              ~qx.last.allowed /\ qx.last.reason = "Burst limit exceeded"

\* canSendError names the burst limit after burstLimit sends in the window,
\* the daily limit being violated as well
C15_Witness ==
    /\ qx.last.kind = "canSendError"
    /\ qx.last.reason = "Burst limit exceeded"
    /\ Cardinality(SentInBurstWindow) = quota.config.burstLimit
    /\ quota.daily.used >= quota.config.dailyLimit

\* the methods that begin with the reset check
QuotaAccesses == {"canSendError", "recordErrorSent", "getUsageStats", "getRemainingQuota"}

\* C16: after every access, each counter whose reset time had come when the
\* access began has been restarted (zero, plus the send the access recorded)
\* with a reset time strictly in the future, each counter whose reset time had
\* not come keeps its reset time and its count (plus the send recorded), and no
\* count is ever negative.
C16_LazyReset ==
    /\ \A c \in {"burst", "daily", "monthly"} : quota[c].used >= 0
    /\ qx.last.kind \in QuotaAccesses =>
          \A c \in {"burst", "daily", "monthly"} :
              LET sentNow == IF qx.last.kind = "recordErrorSent" THEN 1 ELSE 0
              IN  IF qx.before[c].resetTime <= qx.at
                  THEN quota[c].used = sentNow /\ quota[c].resetTime > now
                  ELSE /\ quota[c].resetTime = qx.before[c].resetTime
                       /\ quota[c].used = qx.before[c].used + sentNow

\* an access made exactly at the burst counter's reset time restarted it, and
\* left the daily counter alone
C16_Witness ==
    /\ qx.last.kind \in QuotaAccesses
    /\ qx.at = now
    /\ qx.before.burst.resetTime = now /\ qx.before.burst.used > 0
    /\ quota.burst.used = 0 /\ quota.burst.resetTime > now
    /\ qx.before.daily.resetTime > now /\ quota.daily.used > 0

(***************************************************************************)
(* Pipeline claims                                                         *)
(***************************************************************************)
\* how often report id sits in the pending batch, in a batch whose POST has not
\* been made yet, and in the POSTs made
Pending(id) ==
    Cardinality({j \in 1..Len(sdk.batchManager.currentBatch) :
                    sdk.batchManager.currentBatch[j].id = id})
    + Cardinality({ij \in (1..Len(sdkx.inflight)) \X (1..BatchSize) :
                    /\ sdkx.inflight[ij[1]].pc = "compress"
                    /\ ij[2] <= Len(sdkx.inflight[ij[1]].batch)
                    /\ sdkx.inflight[ij[1]].batch[ij[2]].id = id})

Transmissions(id) ==
    Cardinality({kj \in (1..Len(sdkx.wire)) \X (1..BatchSize) :
                    /\ kj[2] <= Len(sdkx.wire[kj[1]].reports)
                    /\ sdkx.wire[kj[1]].reports[kj[2]].id = id})

\* C1: under the default configuration, of the reportError calls that carry one
\* error and are made within one second of the first of them (the pipeline being
\* enabled and the first call within the request and quota budget), exactly one
\* is admitted and every other one is counted as dropped; the admitted report is
\* transmitted at most once and is not lost before its transmission; when these
\* calls are all the calls made, errorsDropped is their number minus one.
C1_BurstDeduplicated ==
    \A f \in Fingerprints :
        LET b == sdkx.burst[f]
        IN  (sdk.enabled /\ b.calls >= 1 /\ b.admissible) =>
                /\ b.admitted = 1
                /\ b.dropped = b.calls - 1
                /\ b.report # 0
                /\ Pending(b.report) + Transmissions(b.report) = 1
                /\ b.calls = sdkx.next - 1
                      => sdk.sdkMonitor.errorsDropped = b.calls - 1

\* C1 witness: the ten calls of the README loop were made, nine were dropped and
\* the one report admitted has been transmitted
C1_Witness ==
    /\ sdk.enabled
    /\ sdkx.burst[1].calls = BurstCalls
    /\ sdkx.burst[1].admitted = 1
    /\ sdk.sdkMonitor.errorsDropped = BurstCalls - 1
    /\ Transmissions(sdkx.burst[1].report) = 1

\* the reports of each POST the transport received
WireIds ==
    [k \in 1..Len(sdkx.wire) |->
        [j \in 1..Len(sdkx.wire[k].reports) |-> sdkx.wire[k].reports[j].id]]

\* C2: when the pipeline starts offline with an empty queue and three distinct
\* errors are reported before connectivity returns, no transport call is made
\* while offline, and once connectivity has returned, flushQueue was called and
\* no pass or follow-up pass is pending, the transport has been called exactly
\* three times, once per report, in submission order.
C2_OfflineReportsSentInOrder ==
    (sdkx.scen.phase \in {"offline", "online", "flushed"} /\ Len(sdkx.scen.subs) = 3) =>
        /\ \A k \in 1..Len(sdkx.wire) : sdkx.wire[k].online
        /\ (sdkx.scen.phase = "flushed" /\ ~oq.isProcessing /\ oq.timers = 0)
              => WireIds = [k \in 1..3 |-> <<sdkx.scen.subs[k]>>]

(***************************************************************************)
(* Claims about the service that sends directly                            *)
(***************************************************************************)

\* the reportError calls that got past the rate-limit and quota checks; every
\* instant of DirInstants lies within one window of WindowMs
AdmittedCalls == {i \in DirectIds : dx.calls[i].admitted}

\* C14: however the reportError calls are interleaved, awaited by the caller or
\* not, the reports admitted past the rate-limit check within one window of 60
\* seconds number at most maxRequestsPerMinute.
C14_AdmittedWithinLimit ==
    Cardinality(AdmittedCalls) <= sdk.rateLimiter.config.maxRequests

\* a step in which a request goes out to the transport: a reportError call
\* reaches its POST, for the first time or after a retry delay, or the offline
\* manager hands a record of its pass to the send function
DirTransmits ==
    \/ \E i \in DirectIds : dx.calls[i].pc # "post" /\ dx'.calls[i].pc = "post"
    \/ Len(oq'.pass) > 0 /\ oq'.pass # oq.pass

\* C21: once the transport has answered a request with 401 or 403 and the
\* pipeline is disabled, no path makes a further transport call.
C21_NoTransportWhileDisabled ==
    [][~sdk.enabled => ~DirTransmits]_vars

\* C22: a report whose POST was answered with 413 is not sent again by the
\* retry manager and is not put in the offline queue: its reportError call is
\* over and the report is dropped.
C22_PayloadTooLargeDropped ==
    \A i \in DirectIds :
        dx.calls[i].status = 413 =>
            /\ dx.calls[i].pc = "done"
            /\ ~dx.calls[i].queued

\* how many records of the offline manager, queued or taken by its pass, hold
\* report i
Copies(i) ==
    Cardinality({k \in 1..Len(oq.queue) : oq.queue[k].report.id = i})
        + Cardinality({k \in 1..Len(oq.pass) : oq.pass[k].report.id = i})

\* report i is on its way to the transport, or a retry of it is due
InFlight(i) ==
    \/ dx.calls[i].pc \in {"post", "delay"}
    \/ Len(oq.pass) > 0 /\ oq.pass[1].report.id = i

BreakerHolds == cb.state = "OPEN" /\ now < cb.nextRetryTime

\* C32: while the circuit breaker is OPEN and its timeout has not elapsed, no
\* step makes a transport call: neither reportError, nor a retry, nor the
\* draining of the offline queue by flushQueue, the online event or a timer.
C32_NoTransportWhileOpen ==
    [][BreakerHolds => ~DirTransmits]_vars

\* the place of a call in the last reportError, 0 if it was not made
PlaceOf(call) ==
    LET places == {i \in 1..Len(sub.calls) : sub.calls[i] = call}
    IN  IF places = {} THEN 0 ELSE Min(places)

AdmissionChecks == {"canMakeRequest", "canReportError", "canSendError"}

HandOvers == {"addToBatch", "sendReport"}

\* C37: in every reportError call the rate-limit, duplicate and quota checks
\* are made before the breadcrumbs are read, the breadcrumbs are read before
\* the report is handed to the batch manager or to sendReport, and a call
\* rejected by one of the checks does not read the breadcrumbs.
C37_ChecksThenSnapshotThenSend ==
    /\ PlaceOf("getBreadcrumbs") > 0 =>
          \A check \in AdmissionChecks :
              PlaceOf(check) > 0 /\ PlaceOf(check) < PlaceOf("getBreadcrumbs")
    /\ \A hand \in HandOvers :
          PlaceOf(hand) > 0 =>
              PlaceOf("getBreadcrumbs") > 0 /\ PlaceOf("getBreadcrumbs") < PlaceOf(hand)
    /\ sub.outcome \in {"rate_limit", "quota"} => PlaceOf("getBreadcrumbs") = 0

\* what holds of the code: the rate-limit and duplicate checks come before
\* the breadcrumbs are read, the quota check after it and before the report
\* is handed on; only a call rejected by the rate limiter reads no breadcrumbs
C37_QuotaCheckAfterSnapshot ==
    /\ PlaceOf("getBreadcrumbs") > 0 =>
          /\ \A check \in {"canMakeRequest", "canReportError"} :
                PlaceOf(check) > 0 /\ PlaceOf(check) < PlaceOf("getBreadcrumbs")
          /\ PlaceOf("canSendError") > PlaceOf("getBreadcrumbs")
    /\ \A hand \in HandOvers :
          PlaceOf(hand) > 0 =>
              /\ PlaceOf("getBreadcrumbs") > 0 /\ PlaceOf("getBreadcrumbs") < PlaceOf(hand)
              /\ PlaceOf("canSendError") < PlaceOf(hand)
    /\ sub.outcome = "rate_limit" => PlaceOf("getBreadcrumbs") = 0
    /\ sub.outcome = "quota" => PlaceOf("getBreadcrumbs") > 0

\* the sends that got a request id since the last reset()
CurrentRuns == {i \in RequestIds : mon.runs[i].current}

\* C40: since the last reset(), requestsSuccessful + requestsFailed + the
\* number of active requests is the number of recordRequestStart calls, and
\* every send that got a request id is counted exactly once when it has
\* ended, as a success or as a failure, also when it ended on the failed
\* size validation, where recordRequestFailure is called twice; a request
\* still active has not been counted.
C40_RequestsAccounted ==
    /\ mon.monitor.requestsSuccessful + mon.monitor.requestsFailed
          + Cardinality(mon.monitor.requests) = mon.started
    /\ \A id \in RequestIds : mon.counted[id] <= 1
    /\ \A i \in CurrentRuns :
          /\ mon.runs[i].pc \in {"done", "invalid"} =>
                mon.counted[mon.runs[i].id] = 1 /\ mon.runs[i].id \notin mon.monitor.requests
          /\ mon.runs[i].pc \in {"compress", "post"} =>
                mon.counted[mon.runs[i].id] = 0 /\ mon.runs[i].id \in mon.monitor.requests

\* a send ended on the failed size validation while another request is active
C40_Witness ==
    \E i, j \in CurrentRuns :
        /\ mon.runs[i].pc = "invalid"
        /\ mon.monitor.requestsFailed = 1
        /\ mon.runs[j].pc = "post"
        /\ mon.started = 2

(***************************************************************************)
(* Batch manager claims                                                    *)
(***************************************************************************)

\* the items of the batches handed to the send function, in the order handed
RECURSIVE Concatenated(_)
Concatenated(batches) ==
    IF batches = <<>> THEN <<>> ELSE Head(batches).batch \o Concatenated(Tail(batches))

\* C25: whatever the interleaving of addToBatch, flush, timer firings and
\* settling sends, the batches handed to the send function followed by the
\* pending batch are the items added, each once and in the order added: an item
\* added while a send is in flight goes to the pending batch.
C25_EachItemInOneBatch ==
    Concatenated(bmx.forwarded) \o bm.currentBatch = bmx.added

\* two batches were handed over, and an item was added while one was in flight
C25_Witness ==
    /\ Len(bmx.forwarded) >= 2
    /\ Len(bm.currentBatch) >= 1
    /\ \E k \in bmx.inflight : bmx.forwarded[k].at <= bm.currentBatch[1].at

\* C26: after every addToBatch the pending batch is below batchSize items and
\* below maxPayloadSize bytes; while it is not empty a timer is armed that is due
\* batchTimeout after its first item was added, so every item is handed to the
\* send function at most batchTimeout after the first item of its batch.
C26_FlushedBySizeOrTimeout ==
    /\ Len(bm.currentBatch) < bm.config.batchSize
    /\ CalculatePayloadSize(bm.currentBatch) < bm.config.maxPayloadSize
    /\ bm.currentBatch # <<>> =>
          /\ bm.batchTimeout = bm.currentBatch[1].at + bm.config.batchTimeout
          /\ now <= bm.batchTimeout
    /\ \A k \in 1..Len(bmx.forwarded) :
          bmx.forwarded[k].at <= bmx.forwarded[k].batch[1].at + bm.config.batchTimeout

\* the timer handed over a batch whose second item came later than its first
C26_Witness ==
    \E n \in 1..Len(bmx.forwarded) :
        /\ bmx.forwarded[n].at = bmx.forwarded[n].batch[1].at + bm.config.batchTimeout
        /\ Len(bmx.forwarded[n].batch) >= 2
        /\ bmx.forwarded[n].batch[2].at > bmx.forwarded[n].batch[1].at

(***************************************************************************)
(* Breadcrumb claims                                                       *)
(***************************************************************************)

\* the last n entries of a sequence
LastOf(seq, n) == SubSeq(seq, Len(seq) - n + 1, Len(seq))

\* the last min(n, maxBreadcrumbs) of these n breadcrumbs
Kept(since) ==
    LastOf(since, IF Len(since) < ring.mgr.maxBreadcrumbs
                  THEN Len(since) ELSE ring.mgr.maxBreadcrumbs)

\* C28: after any sequence of addBreadcrumb and clear, the ring holds, and
\* getBreadcrumbs returns, exactly the last min(n, maxBreadcrumbs) of the n
\* breadcrumbs added since the last clear, in the order added; it never holds
\* more than maxBreadcrumbs.
C28_LastBreadcrumbsKept ==
    /\ GetBreadcrumbs(ring.mgr) = Kept(ring.since)
    /\ ring.got = Kept(ring.gotSince)
    /\ Len(ring.mgr.breadcrumbs) <= ring.mgr.maxBreadcrumbs

\* getBreadcrumbs returned a full ring after a clear and an eviction
C28_Witness ==
    /\ ring.cleared
    /\ ring.mgr.maxBreadcrumbs >= 2
    /\ Len(ring.gotSince) > ring.mgr.maxBreadcrumbs
    /\ Len(ring.got) = ring.mgr.maxBreadcrumbs
    /\ ring.got[1].message # ring.got[2].message

(***************************************************************************)
(* Fingerprint claims                                                      *)
(***************************************************************************)

\* the frame with every run of digits that follows a colon taken as one sign
RECURSIVE NumbersApart(_, _)
NumbersApart(frame, i) ==
    IF i > Len(frame) THEN <<>>
    ELSE IF frame[i] = ":" /\ DigitsEnd(frame, i + 1) > i
    THEN <<":", "number">> \o NumbersApart(frame, DigitsEnd(frame, i + 1) + 1)
    ELSE <<frame[i]>> \o NumbersApart(frame, i + 1)

\* the first SignatureDepth meaningful frames of the stack
FirstFrames(stack) ==
    Slice(SelectSeq(Split(stack, "\n"), MeaningfulFrame), SignatureDepth)

\* the two stacks have the same first meaningful frames up to their numbers
SameFrames(stack1, stack2) ==
    LET frames1 == FirstFrames(stack1)
        frames2 == FirstFrames(stack2)
    IN  /\ Len(frames1) = Len(frames2)
        /\ \A k \in 1..Len(frames1) :
              NumbersApart(frames1[k], 1) = NumbersApart(frames2[k], 1)

\* the two errors are the same as far as the claim goes
SameContent(error1, error2) ==
    /\ error1.name = error2.name
    /\ Slice(error1.message, MessageSignatureLength)
         = Slice(error2.message, MessageSignatureLength)
    /\ SameFrames(error1.stack, error2.stack)

\* C29: two errors with the same constructor name, the same first 100 message
\* characters and the same first 3 meaningful stack frames up to line/column
\* numbers get the same fingerprint, whatever the numbers, the rest of the
\* message and additionalData.
C29_SameContentSameFingerprint ==
    fpr.calls = 2 /\ SameContent(fpr.first, fpr.second)
        => fpr.fingerprint1 = fpr.fingerprint2

\* the same fingerprint for two errors that differ in their numbers, in the
\* message past its 100th character, in a fourth frame and in additionalData
C29_Witness ==
    /\ fpr.calls = 2
    /\ SameContent(fpr.first, fpr.second)
    /\ fpr.fingerprint1 = fpr.fingerprint2
    /\ fpr.first.message # fpr.second.message
    /\ Len(Split(fpr.first.stack, "\n")) < Len(Split(fpr.second.stack, "\n"))
    /\ Has(fpr.second.stack, <<":", "3", "0", ":", "4">>)
    /\ Has(fpr.second.stack, <<"w", "e", "b", "p", "a", "c", "k", ":", "/", "/">>)
    /\ Has(fpr.first.stack, <<":", "7">>)
    /\ fpr.additionalData # <<>>

(***************************************************************************)
(* Wire format claims                                                      *)
(***************************************************************************)

\* C31: when a batch is sent compressed, the body's data is exactly the base64
\* string compress returned, whatever its length or content, so that decoding
\* it gives back the compressed bytes, and X-Batch-Size is the number of reports.
C31_CompressedBodyRoundTrips ==
    /\ wire.pc # "given" =>
            /\ DataOf(wire.body) = wire.data
            /\ wire.batchSize = wire.count
    /\ wire.pc = "decoded" => wire.decoded.ok /\ wire.decoded.bytes = wire.bytes

(***************************************************************************)
(* Compression claims                                                      *)
(***************************************************************************)

\* the run got past the compression without a compressed payload
CompressionFailed == sbd.compression \in {"failed", "unsupported"}

\* the errors were POSTed as they are, without the gzip header
SentUncompressed == sbd.posted /\ sbd.payload = "array" /\ ~sbd.gzip

ReportErrorCalled == sdkx'.next = sdkx.next + 1

\* the calls of reportError with fingerprint f that returned at the guard
Ignored(f) == sdkx.burst[f].calls - sdkx.burst[f].admitted - sdkx.burst[f].dropped

\* C23: a reportError or reportMessage call made while config.enabled is false
\* or the service is not initialized makes no transport call and leaves the rate
\* limiter, the quota counters, the offline queue, the pending batch and the
\* monitor counters as they were.
C23_DisabledCallChangesNothing ==
    [][(ReportErrorCalled /\ (~sdk.enabled \/ ~sdk.isInitialized))
          => /\ sdk' = sdk
             /\ oq' = oq
             /\ sdkx'.wire = sdkx.wire
             /\ sdkx'.inflight = sdkx.inflight]_vars

C23_Witness ==
    /\ \E f \in Fingerprints : Ignored(f) > 0
    /\ ~sdk.enabled
    /\ sdk.isInitialized
    /\ Len(sdk.batchManager.currentBatch) > 0
    /\ sdk.rateLimiter.requests # <<>>

(***************************************************************************)
(* Claims about the constructor                                            *)
(***************************************************************************)

\* the configuration's URL or token is empty, or the token is shorter than 10
\* characters or holds "<script" or "javascript:", or a validator rejects them
InvalidConfig(config) ==
    \/ config.apiUrl = <<>>
    \/ config.projectToken = <<>>
    \/ Len(config.projectToken) < 10
    \/ Has(config.projectToken, <<"<", "s", "c", "r", "i", "p", "t">>)
    \/ Has(config.projectToken, <<"j", "a", "v", "a", "s", "c", "r", "i", "p", "t", ":">>)
    \/ ~ValidateApiUrl(config.apiUrl, config.requireHttps)
    \/ ~ValidateProjectToken(config.projectToken)

\* the constructor threw before it installed anything of initialize()
ThrewBeforeSideEffects ==
    /\ app.pc = "threw"
    /\ app.installed \cap Hooks = {}
    /\ ~app.isInitialized

\* C24 as stated: the constructor throws on every configuration with an invalid
\* apiUrl or projectToken, before any side effect of initialize().
C24_InvalidConfigThrows ==
    (app.pc # "given" /\ InvalidConfig(app.config)) => ThrewBeforeSideEffects

\* C24: with config.enabled true, the constructor throws on a configuration
\* with an invalid apiUrl or projectToken, and it does so before any side effect
\* of initialize(): no global handler, console override, router subscription,
\* offline send function or cleanup interval is installed and isInitialized is
\* false.  With config.enabled false nothing is validated and nothing thrown.
C24_EnabledInvalidConfigThrows ==
    /\ (app.pc # "given" /\ app.config.enabled /\ InvalidConfig(app.config))
            => ThrewBeforeSideEffects
    /\ (app.pc # "given" /\ ~app.config.enabled)
            => app.pc = "built" /\ app.installed \cap Hooks = {} /\ ~app.isInitialized

C24_Witness ==
    /\ app.pc = "threw"
    /\ app.config.enabled
    /\ ValidateApiUrl(app.config.apiUrl, app.config.requireHttps)
    /\ Len(app.config.projectToken) >= 10
    /\ ~ValidateProjectToken(app.config.projectToken)

(***************************************************************************)
(* Sanitizer claims                                                        *)
(***************************************************************************)

\* C17: sanitizeData applied to its own result returns that result unchanged.
C17_Idempotent ==
    sv.pc = "twice" => sv.again = sv.out

\* the keys of the objects within a value, at every depth
RECURSIVE KeysWithin(_)
KeysWithin(data) ==
    CASE data.t = "object" ->
            {data.v[k].key : k \in 1..Len(data.v)}
            \cup UNION {KeysWithin(data.v[k].value) : k \in 1..Len(data.v)}
      [] data.t = "array" -> UNION {KeysWithin(data.v[k]) : k \in 1..Len(data.v)}
      [] OTHER -> {}

\* C18: no key of an object within the result of sanitizeData, at any depth,
\* contains a term of the sensitive-key list, whatever its case.
C18_NoSensitiveKeyLeft ==
    sv.pc # "given" => \A key \in KeysWithin(sv.out) : ~IsSensitiveKey(key)

=============================================================================
